---- MODULE Spec2Model ----
(***************************************************************************)
(* Geometry2D bay-plan pipeline of ai-vault-dashboard (backend/services/   *)
(* geometry2d): ROI preparation, rib-guided constraint selection,          *)
(* constrained triangulation with pruning, and the bay-plan orchestrator   *)
(* (get_state / run_reconstruction) over the per-project files.            *)
(*                                                                         *)
(* Number representation.  Unit-square coordinates are integers in units   *)
(* of 1/G (G = 100, i.e. 0.01); scores, thresholds and evidence values are *)
(* integers in percent (0.34 -> 34); crossTolerance is kept in units of    *)
(* 0.001 so that its clamp bounds 0.001 and 0.2 are representable.         *)
(* An optional value (a file that may not exist, Python None) is the empty *)
(* tuple << >> when absent and the one-element tuple << x >> when present. *)
(***************************************************************************)
EXTENDS Integers, Sequences, FiniteSets, TLC

VARIABLES
    segRoi,        \* segmentations/index.json "roi" entry (Step 4 output)
    bossMask,      \* segmentations/group_boss_stone.png, as its centroids
    ribMask,       \* union of the rib masks, as the rib strokes it shows
    roiFile,       \* 2d_geometry/roi.json
    bossFile,      \* 2d_geometry/boss_report.json
    pointsFile,    \* cut_typology_matching/node_points.json
    matchCsv,      \* cut_typology_matching/boss_cut_typology_match.csv
    matchFile,     \* cut_typology_matching/cut_typology_result.json
    stateFile,     \* bay_plan_reconstruction/state.json
    resultFile,    \* bay_plan_reconstruction/result.json
    resp,          \* response of the most recent request
    prev,          \* response of the request before it
    lastRun,       \* payload returned by the most recent successful run
    clock,         \* datetime.now(), as a counter
    workers        \* the executor's worker threads: the call each one is in

vars == <<segRoi, bossMask, ribMask, roiFile, bossFile, pointsFile, matchCsv, matchFile,
          stateFile, resultFile, resp, prev, lastRun, clock, workers>>

None == << >>
Some(x) == << x >>
IsSome(m) == Len(m) = 1
Get(m) == m[1]

\* A local variable: Body applied to the value of x, computed once.
Bind(x, Body(_)) == CHOOSE r \in {Body(v) : v \in {x}} : TRUE

(***************************************************************************)
(* Bounds of the model.                                                    *)
(***************************************************************************)
MaxClock == 3
MaxSteiner == 1

(***************************************************************************)
(* Small arithmetic and sequence helpers.                                  *)
(***************************************************************************)
G == 100

Abs(x) == IF x < 0 THEN -x ELSE x
Min2(a, b) == IF a <= b THEN a ELSE b
Max2(a, b) == IF a >= b THEN a ELSE b
Clamp(lo, hi, x) == Max2(lo, Min2(hi, x))

\* Python round(): nearest integer of num/den (den > 0), ties to even.
RoundDiv(num, den) ==
    LET q == num \div den
        r == num % den
    IN IF 2 * r < den THEN q
       ELSE IF 2 * r > den THEN q + 1
       ELSE IF q % 2 = 0 THEN q ELSE q + 1

Range(s) == {s[i] : i \in 1..Len(s)}

RECURSIVE SeqOfSet(_)
SeqOfSet(S) ==
    IF S = {} THEN << >>
    ELSE LET x == CHOOSE y \in S : TRUE IN <<x>> \o SeqOfSet(S \ {x})

\* sorted(...) of a set of integer pairs: lexicographic order.
PairLess(e, f) == e[1] < f[1] \/ (e[1] = f[1] /\ e[2] < f[2])

RECURSIVE SortedPairs(_)
SortedPairs(S) ==
    IF S = {} THEN << >>
    ELSE LET m == CHOOSE e \in S : \A f \in S \ {e} : PairLess(e, f)
         IN <<m>> \o SortedPairs(S \ {m})

\* tuple(sorted((a, b)))
SortedPair(a, b) == IF a <= b THEN <<a, b>> ELSE <<b, a>>

\* sorted(seq, key=...) on a sequence of <<key, item>> pairs: ascending key,
\* stable (equal keys keep their input order).
RECURSIVE KeyInsert(_, _)
KeyInsert(sorted, x) ==
    IF sorted = << >> THEN <<x>>
    ELSE IF x[1] < Head(sorted)[1] THEN <<x>> \o sorted
    ELSE <<Head(sorted)>> \o KeyInsert(Tail(sorted), x)

RECURSIVE InsertAll(_, _, _)
InsertAll(acc, s, i) ==
    IF i > Len(s) THEN acc ELSE InsertAll(KeyInsert(acc, s[i]), s, i + 1)

SortByKey(s) == InsertAll(<< >>, s, 1)

Items(s) == [i \in 1..Len(s) |-> s[i][2]]

(***************************************************************************)
(* ROI coordinate model (utils/roi_math.py).  rotation_deg is restricted   *)
(* to quarter turns, for which sin and cos are exact.                      *)
(***************************************************************************)
SinDeg(d) == CASE d % 360 = 0 -> 0 [] d % 360 = 90 -> 1
               [] d % 360 = 180 -> 0 [] d % 360 = 270 -> -1

CosDeg(d) == CASE d % 360 = 0 -> 1 [] d % 360 = 90 -> 0
               [] d % 360 = 180 -> -1 [] d % 360 = 270 -> 0

\* num/den rounded to the nearest integer, den of either sign.
Quot(num, den) == IF den > 0 THEN RoundDiv(num, den) ELSE RoundDiv(-num, -den)

\* image_to_unit: None when it raises (zero width or height).
image_to_unit(p, roi) ==
    IF roi.w = 0 \/ roi.h = 0 THEN None
    ELSE LET dx == p[1] - roi.cx
             dy == p[2] - roi.cy
             s == SinDeg(roi.rotation_deg)
             c == CosDeg(roi.rotation_deg)
             x_local == c * dx + s * dy
             y_local == (-s) * dx + c * dy
         IN Some(<<Quot(x_local * G, roi.w) + G \div 2,
                   Quot(y_local * G, roi.h) + G \div 2>>)

\* unit_to_image followed by the int(round(.)) every caller applies.
unit_to_image(uv, roi) ==
    LET s == SinDeg(roi.rotation_deg)
        c == CosDeg(roi.rotation_deg)
        xl == (uv[1] - G \div 2) * roi.w
        yl == (uv[2] - G \div 2) * roi.h
    IN <<roi.cx + RoundDiv(c * xl - s * yl, G),
         roi.cy + RoundDiv(s * xl + c * yl, G)>>

(***************************************************************************)
(* Node Collector and candidate graph (utils/reconstruction_graph.py).     *)
(* Edges are pairs <<a, b>> of 0-based node indices, as in the source.     *)
(***************************************************************************)
IdStr(i) == <<"1", "2", "3", "4", "5", "6", "7", "8", "9">>[i]

NodeAt(nodes, i) == nodes[i + 1]

Indices(nodes) == 0..(Len(nodes) - 1)

CornerAnchors ==
    << <<"roi_corner_00", <<0, 0>> >>, <<"roi_corner_10", <<G, 0>> >>,
       <<"roi_corner_11", <<G, G>> >>, <<"roi_corner_01", <<0, G>> >> >>

HalfAnchors ==
    << <<"roi_mid_top", <<G \div 2, 0>> >>, <<"roi_mid_right", <<G, G \div 2>> >>,
       <<"roi_mid_bottom", <<G \div 2, G>> >>, <<"roi_mid_left", <<0, G \div 2>> >>,
       <<"roi_centre", <<G \div 2, G \div 2>> >> >>

\* add_node: the rounded key of a grid coordinate is the coordinate itself;
\* a node whose key was seen is dropped.
add_node(nodes, node_id, uv, source, boss_id, roi) ==
    IF \E k \in 1..Len(nodes) : nodes[k].uv = uv THEN nodes
    ELSE Append(nodes, [node_id |-> node_id, uv |-> uv,
                        xy |-> unit_to_image(uv, roi),
                        source |-> source, boss_id |-> boss_id])

RECURSIVE AddBossNodes(_, _, _, _)
AddBossNodes(nodes, rows, i, roi) ==
    IF i > Len(rows) THEN nodes
    ELSE AddBossNodes(add_node(nodes, IdStr(rows[i].id), rows[i].uv, "boss",
                               IdStr(rows[i].id), roi),
                      rows, i + 1, roi)

RECURSIVE AddAnchorNodes(_, _, _, _)
AddAnchorNodes(nodes, anchors, i, roi) ==
    IF i > Len(anchors) THEN nodes
    ELSE AddAnchorNodes(add_node(nodes, anchors[i][1], anchors[i][2], "anchor",
                                 "None", roi),
                        anchors, i + 1, roi)

collect_nodes(roi, boss_rows, include_corner_anchors, include_half_anchors) ==
    LET n1 == AddBossNodes(<< >>, boss_rows, 1, roi)
        n2 == IF include_corner_anchors
              THEN AddAnchorNodes(n1, CornerAnchors, 1, roi) ELSE n1
    IN IF include_half_anchors THEN AddAnchorNodes(n2, HalfAnchors, 1, roi) ELSE n2

BoundarySegments ==
    << << <<0, 0>>, <<G, 0>> >>, << <<G, 0>>, <<G, G>> >>,
       << <<G, G>>, <<0, G>> >>, << <<0, G>>, <<0, 0>> >> >>

FamilySegment(family) ==
    CASE family = "vertical" -> << <<G \div 2, 0>>, <<G \div 2, G>> >>
      [] family = "horizontal" -> << <<0, G \div 2>>, <<G, G \div 2>> >>
      [] family = "diagonal_backslash" -> << <<0, 0>>, <<G, G>> >>
      [] family = "diagonal_slash" -> << <<G, 0>>, <<0, G>> >>

segments_for_families(families) ==
    BoundarySegments \o [i \in 1..Len(families) |-> FamilySegment(families[i])]

\* dist <= tol for a node at offset (vx, vy) from p1 of a segment (dx, dy):
\* dist = |cross| / sqrt(len2) in units of 0.01, tol in units of 0.001.
\* |cross| > 3000 already means dist > 0.2, the largest tolerance.
WithinTol(vx, vy, dx, dy, tol) ==
    LET cross == Abs(vx * dy - vy * dx)
        len2 == dx * dx + dy * dy
    IN cross <= 3000 /\ 100 * cross * cross <= tol * tol * len2

_build_segment_edges_single(nodes, p1, p2, tol) ==
    LET dx == p2[1] - p1[1]
        dy == p2[2] - p1[2]
        len2 == dx * dx + dy * dy
        Dot(i) == (NodeAt(nodes, i).uv[1] - p1[1]) * dx
                  + (NodeAt(nodes, i).uv[2] - p1[2]) * dy
        OnLine(i) ==
            /\ NodeAt(nodes, i).source \in {"boss", "anchor"}
            /\ Dot(i) >= 0 /\ Dot(i) <= len2
            /\ WithinTol(NodeAt(nodes, i).uv[1] - p1[1],
                         NodeAt(nodes, i).uv[2] - p1[2], dx, dy, tol)
        on_line == SelectSeq([k \in 1..Len(nodes) |-> <<Dot(k - 1), k - 1>>],
                             LAMBDA e : OnLine(e[2]))
        ordered == Items(SortByKey(on_line))
    IN IF len2 = 0 \/ Len(on_line) < 2 THEN {}
       ELSE {SortedPair(ordered[k], ordered[k + 1]) : k \in 1..(Len(ordered) - 1)}

\* A variant that returns from inside the loop, with the edges of the first
\* segment only.
build_segment_edges_first(nodes, segments, tol) ==
    _build_segment_edges_single(nodes, segments[1][1], segments[1][2], tol)

build_segment_edges(nodes, segments, tol) ==
    UNION {_build_segment_edges_single(nodes, segments[k][1], segments[k][2], tol)
           : k \in 1..Len(segments)}

\* k nearest neighbours per node; equal distances are taken in index order.
build_knn_candidate_edges(nodes, k, max_distance_uv) ==
    LET n == Len(nodes)
        k_eff == Max2(1, Min2(k, n - 1))
        D2(i, j) == (NodeAt(nodes, i).uv[1] - NodeAt(nodes, j).uv[1])
                      * (NodeAt(nodes, i).uv[1] - NodeAt(nodes, j).uv[1])
                    + (NodeAt(nodes, i).uv[2] - NodeAt(nodes, j).uv[2])
                      * (NodeAt(nodes, i).uv[2] - NodeAt(nodes, j).uv[2])
        Others(i) == SelectSeq([j \in 1..n |-> <<D2(i, j - 1), j - 1>>],
                               LAMBDA e : e[2] # i)
        Nearest(i) == SubSeq(SortByKey(Others(i)), 1, k_eff)
    IN IF n < 2 THEN {}
       ELSE UNION {{SortedPair(i, Nearest(i)[m][2]) :
                       m \in {m \in 1..k_eff :
                                Nearest(i)[m][1] <= max_distance_uv * max_distance_uv}}
                   : i \in Indices(nodes)}

(***************************************************************************)
(* Rib-evidence scoring (utils/reconstruction_rib_guidance.py).            *)
(* The rib raster is represented by the straight rib strokes it shows.  A  *)
(* segment is sampled at its two endpoints and three interior quarter      *)
(* points; a sample is "near a rib" when it lies on a stroke.  coverage    *)
(* and overlap are both the fraction of near samples, endpoint is the      *)
(* fraction of near endpoints.  Evidence is in percent, scores in 1e-4.    *)
(***************************************************************************)
Families == <<"vertical", "horizontal", "diagonal_backslash", "diagonal_slash">>

_orientation(a, b, c) ==
    LET val == (b[2] - a[2]) * (c[1] - b[1]) - (b[1] - a[1]) * (c[2] - b[2])
    IN IF val = 0 THEN 0 ELSE IF val > 0 THEN 1 ELSE -1

_on_segment(a, b, c) ==
    /\ Min2(a[1], c[1]) <= b[1] /\ b[1] <= Max2(a[1], c[1])
    /\ Min2(a[2], c[2]) <= b[2] /\ b[2] <= Max2(a[2], c[2])

\* Sample m (0..4) of the segment p-q, in coordinates scaled by 4.
Sample4(p, q, m) == <<(4 - m) * p[1] + m * q[1], (4 - m) * p[2] + m * q[2]>>

Scale4(p) == <<4 * p[1], 4 * p[2]>>

NearRib(mask, x4) ==
    \E st \in mask :
        /\ _orientation(Scale4(st[1]), Scale4(st[2]), x4) = 0
        /\ _on_segment(Scale4(st[1]), x4, Scale4(st[2]))

score_edge_support(mask, p1, p2) ==
    LET near == Cardinality({m \in 0..4 : NearRib(mask, Sample4(p1, p2, m))})
        ends == Cardinality({m \in {0, 4} : NearRib(mask, Sample4(p1, p2, m))})
        coverage == 20 * near
        overlap == 20 * near
        endpoint == 50 * ends
    IN [overlap |-> overlap, coverage |-> coverage, endpoint |-> endpoint,
        evidence |-> Clamp(0, 100, (55 * coverage + 35 * overlap + 10 * endpoint) \div 100)]

\* angle <= 22 deg  <=>  |dy| <= tan(22 deg) |dx|, tan(22 deg) = 0.404026.
classify_segment_family(p1, p2) ==
    LET dx == p2[1] - p1[1]
        dy == p2[2] - p1[2]
    IN IF dx = 0 /\ dy = 0 THEN "None"
       ELSE IF dx = 0 THEN "vertical"
       ELSE IF dy = 0 THEN "horizontal"
       ELSE IF 1000000 * Abs(dy) <= 404026 * Abs(dx) THEN "horizontal"
       ELSE IF 1000000 * Abs(dx) <= 404026 * Abs(dy) THEN "vertical"
       ELSE IF dx * dy >= 0 THEN "diagonal_backslash" ELSE "diagonal_slash"

\* Family support: share of the canonical full-span segment that is rib.
score_constraint_families(mask) ==
    [f \in Range(Families) |->
        20 * Cardinality({m \in 0..4 :
                NearRib(mask, Sample4(FamilySegment(f)[1], FamilySegment(f)[2], m))})]

NoFamilyScores == [f \in Range(Families) |-> 0]

gate_constraint_families(family_scores, include_threshold, optional_threshold) ==
    LET enabled == SelectSeq(Families, LAMBDA f : family_scores[f] >= include_threshold)
        optional == SelectSeq(Families, LAMBDA f :
                        family_scores[f] < include_threshold
                        /\ family_scores[f] >= optional_threshold)
    IN IF enabled # << >> THEN enabled
       ELSE IF optional # << >> THEN optional
       ELSE << >>

\* Score table over the candidate edges: a function from edges to scores in
\* units of 1e-4.  family_scores is None for the pruning pass.
score_candidate_edges(mask, nodes, candidate_edges, family_scores, family_prior_weight) ==
    LET prior_weight == Clamp(0, 100, family_prior_weight)
        Valid(e) == e[1] # e[2] /\ e[1] >= 0 /\ e[2] >= 0
                    /\ e[1] < Len(nodes) /\ e[2] < Len(nodes)
        Score(e) ==
            LET p1 == NodeAt(nodes, e[1]).uv
                p2 == NodeAt(nodes, e[2]).uv
                family == classify_segment_family(p1, p2)
                family_prior == IF family # "None" /\ IsSome(family_scores)
                                THEN Get(family_scores)[family] ELSE 0
            IN Clamp(0, 10000,
                     (100 - prior_weight) * score_edge_support(mask, p1, p2).evidence
                     + prior_weight * family_prior)
    IN [e \in {SortedPair(x[1], x[2]) : x \in {y \in candidate_edges : Valid(SortedPair(y[1], y[2]))}}
          |-> Score(e)]

(***************************************************************************)
(* Constraint Selector (select_constraint_edges and its helpers).          *)
(***************************************************************************)
_segments_intersect(p1, p2, p3, p4) ==
    IF p1 = p3 \/ p1 = p4 \/ p2 = p3 \/ p2 = p4 THEN FALSE
    ELSE LET o1 == _orientation(p1, p2, p3)
             o2 == _orientation(p1, p2, p4)
             o3 == _orientation(p3, p4, p1)
             o4 == _orientation(p3, p4, p2)
         IN \/ (o1 # o2 /\ o3 # o4)
            \/ (o1 = 0 /\ _on_segment(p1, p3, p2))
            \/ (o2 = 0 /\ _on_segment(p1, p4, p2))
            \/ (o3 = 0 /\ _on_segment(p3, p1, p4))
            \/ (o4 = 0 /\ _on_segment(p3, p2, p4))

_edge_crosses_selected(nodes, edge, selected_edges) ==
    \E other \in selected_edges :
        /\ edge[1] \notin {other[1], other[2]}
        /\ edge[2] \notin {other[1], other[2]}
        /\ _segments_intersect(NodeAt(nodes, edge[1]).uv, NodeAt(nodes, edge[2]).uv,
                               NodeAt(nodes, other[1]).uv, NodeAt(nodes, other[2]).uv)

try_add(nodes, selected, edge, enforce_planarity) ==
    IF edge \in selected THEN selected
    ELSE IF enforce_planarity /\ _edge_crosses_selected(nodes, edge, selected) THEN selected
    ELSE selected \cup {edge}

RECURSIVE TryAddAll(_, _, _, _, _)
TryAddAll(nodes, selected, edges, i, enforce_planarity) ==
    IF i > Len(edges) THEN selected
    ELSE TryAddAll(nodes, try_add(nodes, selected, edges[i], enforce_planarity),
                   edges, i + 1, enforce_planarity)

\* Edges of a score table that are not in `excluded`, best score first;
\* equal scores keep the table's (sorted) order.
OrderedByScore(edge_scores, excluded) ==
    LET dom == SortedPairs(DOMAIN edge_scores)
        cand == SelectSeq(dom, LAMBDA e : e \notin excluded)
    IN Items(SortByKey([k \in 1..Len(cand) |-> <<-edge_scores[cand[k]], cand[k]>>]))

\* Per-boss coverage pass, nodes visited in index order.
RECURSIVE CoverBosses(_, _, _, _, _, _, _)
CoverBosses(nodes, selected, ordered, edge_scores, idx, per_boss_min_score, enforce_planarity) ==
    IF idx >= Len(nodes) THEN selected
    ELSE LET incident == SelectSeq(ordered, LAMBDA e : idx \in {e[1], e[2]})
             next ==
                IF NodeAt(nodes, idx).source # "boss" THEN selected
                ELSE IF \E e \in selected : idx \in {e[1], e[2]} THEN selected
                ELSE IF incident = << >> THEN selected
                ELSE IF edge_scores[incident[1]] >= 100 * per_boss_min_score
                     THEN try_add(nodes, selected, incident[1], enforce_planarity)
                ELSE selected
         IN CoverBosses(nodes, next, ordered, edge_scores, idx + 1,
                        per_boss_min_score, enforce_planarity)

select_constraint_edges(nodes, edge_scores, min_score, protected_edges, per_boss_min_score, fallback_top_n, enforce_planarity) ==
    Bind({SortedPair(e[1], e[2]) : e \in {x \in protected_edges : x[1] # x[2]}},
         LAMBDA protected_set :
    Bind(OrderedByScore(edge_scores, protected_set), LAMBDA ordered :
    Bind(TryAddAll(nodes, protected_set,
                   SelectSeq(ordered, LAMBDA e : edge_scores[e] >= 100 * min_score),
                   1, enforce_planarity), LAMBDA main :
    CoverBosses(nodes,
                IF Cardinality(main \ protected_set) = 0 /\ ordered # << >>
                THEN TryAddAll(nodes, main,
                               SubSeq(ordered, 1, Min2(Len(ordered), Max2(1, fallback_top_n))),
                               1, enforce_planarity)
                ELSE main,
                ordered, edge_scores, 0, per_boss_min_score, enforce_planarity))))

(***************************************************************************)
(* Post-triangulation pruning (filter_reconstructed_edges).  The returned  *)
(* threshold is in units of 1e-6.                                          *)
(***************************************************************************)
\* np.quantile(values, 0.35) with linear interpolation, times 100.
Quantile35x100(values) ==
    LET sorted == Items(SortByKey([k \in 1..Len(values) |-> <<values[k], values[k]>>]))
        pos == 35 * (Len(values) - 1)
        lo == pos \div 100
        fr == pos % 100
    IN IF fr = 0 THEN 100 * sorted[lo + 1]
       ELSE 100 * sorted[lo + 1] + fr * (sorted[lo + 2] - sorted[lo + 1])

RECURSIVE KeepBossEdges(_, _, _, _)
KeepBossEdges(nodes, kept, scored, idx) ==
    IF idx >= Len(nodes) THEN kept
    ELSE LET incident == OrderedByScore(
                             [e \in {x \in DOMAIN scored : idx \in {x[1], x[2]}} |-> scored[e]], {})
             next ==
                IF NodeAt(nodes, idx).source # "boss" THEN kept
                ELSE IF \E e \in kept : idx \in {e[1], e[2]} THEN kept
                ELSE IF incident = << >> THEN kept
                ELSE kept \cup {incident[1]}
         IN KeepBossEdges(nodes, next, scored, idx + 1)

\* A variant without the constraint exemption: every edge has to reach the
\* keep score.
filter_reconstructed_edges_unprotected(mask, nodes, edges, constraint_edges, min_non_constraint_score) ==
    IF ~IsSome(mask)
    THEN [edges |-> {SortedPair(e[1], e[2]) : e \in {x \in edges : x[1] # x[2]}},
          threshold |-> 0]
    ELSE [edges |-> KeepBossEdges(nodes,
                        {e \in DOMAIN score_candidate_edges(Get(mask), nodes, edges, None, 0) :
                            score_candidate_edges(Get(mask), nodes, edges, None, 0)[e]
                                >= 100 * min_non_constraint_score},
                        score_candidate_edges(Get(mask), nodes, edges, None, 0), 0),
          threshold |-> 10000 * min_non_constraint_score]

filter_reconstructed_edges(mask, nodes, edges, constraint_edges, min_non_constraint_score) ==
    IF ~IsSome(mask)
    THEN [edges |-> {SortedPair(e[1], e[2]) : e \in {x \in edges : x[1] # x[2]}},
          threshold |-> 0]
    ELSE Bind(score_candidate_edges(Get(mask), nodes, edges, None, 0), LAMBDA scored :
         Bind({SortedPair(e[1], e[2]) : e \in {x \in constraint_edges : x[1] # x[2]}},
              LAMBDA constraint_set :
         Bind(SelectSeq(SortedPairs(DOMAIN scored), LAMBDA e : e \notin constraint_set),
              LAMBDA free :
         Bind(IF free # << >>
              THEN Max2(10000 * min_non_constraint_score,
                        Quantile35x100([k \in 1..Len(free) |-> scored[free[k]]]))
              ELSE 10000 * min_non_constraint_score, LAMBDA adaptive_threshold :
            [edges |-> KeepBossEdges(nodes,
                          {SortedPair(e[1], e[2]) :
                              e \in {x \in edges :
                                       \/ SortedPair(x[1], x[2]) \in constraint_set
                                       \/ /\ SortedPair(x[1], x[2]) \in DOMAIN scored
                                          /\ 100 * scored[SortedPair(x[1], x[2])]
                                                 >= adaptive_threshold
                                       \/ /\ SortedPair(x[1], x[2]) \notin DOMAIN scored
                                          /\ 0 >= adaptive_threshold}},
                          scored, 0),
             threshold |-> adaptive_threshold]))))

(***************************************************************************)
(* Constrained triangulation (build_cdt_edges).  triangle.triangulate is   *)
(* an external library: its result is a nondeterministic choice among the  *)
(* outcomes its contract allows.  With fewer than three vertices or all    *)
(* vertices collinear it either raises or returns no triangles.  Otherwise *)
(* it returns triangles over the covered vertices: all of them, or, in     *)
(* PSLG mode ("p", no convex-hull flag), only those of the closed unit     *)
(* square when the exterior is carved away; in PSLG mode it may append     *)
(* Steiner vertices on constraint segments.                                *)
(***************************************************************************)
AllCollinear(uvs) ==
    \A i, j, k \in 1..Len(uvs) : _orientation(uvs[i], uvs[j], uvs[k]) = 0

InUnitSquare(uv) == uv[1] >= 0 /\ uv[1] <= G /\ uv[2] >= 0 /\ uv[2] <= G

Midpoint(p, q) == <<(p[1] + q[1]) \div 2, (p[2] + q[2]) \div 2>>

TrisOver(V, uvs) ==
    {t \in V \X V \X V :
        /\ t[1] < t[2] /\ t[2] < t[3]
        /\ _orientation(uvs[t[1] + 1], uvs[t[2] + 1], uvs[t[3] + 1]) # 0}

TriangulatorOutcomes(nodes, constraint_edges) ==
    LET n == Len(nodes)
        uvs == [k \in 1..n |-> nodes[k].uv]
        segs == SortedPairs(constraint_edges)
        SteinerUv(c) == [k \in 1..c |->
                            Midpoint(uvs[segs[k][1] + 1], uvs[segs[k][2] + 1])]
        Counts == IF constraint_edges = {} THEN {0}
                  ELSE 0..Min2(MaxSteiner, Len(segs))
        Covered(c) ==
            LET all == 0..(n + c - 1)
                inside == {i \in all : InUnitSquare((uvs \o SteinerUv(c))[i + 1])}
            IN IF constraint_edges = {} THEN {all} ELSE {all, inside}
    IN IF n < 3 \/ AllCollinear(uvs)
       THEN {[ok |-> FALSE, steiner |-> << >>, tris |-> {}],
             [ok |-> TRUE, steiner |-> << >>, tris |-> {}]}
       ELSE UNION {{[ok |-> TRUE, steiner |-> SteinerUv(c),
                     tris |-> TrisOver(V, uvs \o SteinerUv(c))] : V \in Covered(c)}
                   : c \in Counts}

SteinerId(k) == <<"steiner_0", "steiner_1", "steiner_2", "steiner_3">>[k + 1]

\* A variant that puts the Steiner nodes in front of the input nodes.
build_cdt_edges_steinerfirst(nodes, constraint_edges, roi, tri) ==
    IF Len(nodes) < 2 THEN [nodes |-> nodes, edges |-> constraint_edges]
    ELSE LET n == Len(nodes)
             steiner == [k \in 1..Len(tri.steiner) |->
                            [node_id |-> SteinerId(k - 1), uv |-> tri.steiner[k],
                             xy |-> unit_to_image(tri.steiner[k], roi),
                             source |-> "steiner", boss_id |-> "None"]]
             tri_edges == UNION {{SortedPair(t[1], t[2]), SortedPair(t[2], t[3]),
                                  SortedPair(t[3], t[1])} : t \in tri.tris}
         IN [nodes |-> steiner \o nodes, edges |-> constraint_edges \cup tri_edges]

\* build_cdt_edges given the triangulator's result: the node list with the
\* Steiner nodes appended, and the sorted edge set.
build_cdt_edges(nodes, constraint_edges, roi, tri) ==
    IF Len(nodes) < 2 THEN [nodes |-> nodes, edges |-> constraint_edges]
    ELSE LET n == Len(nodes)
             steiner == [k \in 1..Len(tri.steiner) |->
                            [node_id |-> SteinerId(k - 1), uv |-> tri.steiner[k],
                             xy |-> unit_to_image(tri.steiner[k], roi),
                             source |-> "steiner", boss_id |-> "None"]]
             tri_edges == UNION {{SortedPair(t[1], t[2]), SortedPair(t[2], t[3]),
                                  SortedPair(t[3], t[1])} : t \in tri.tris}
         IN [nodes |-> nodes \o steiner, edges |-> constraint_edges \cup tri_edges]

(***************************************************************************)
(* Persisted inputs of the orchestrator (utils/reconstruction_io.py).      *)
(***************************************************************************)
DEFAULT_RECONSTRUCT_PARAMS ==
    [includeCornerAnchors |-> TRUE, includeHalfAnchors |-> FALSE,
     crossTolerance |-> 20, corridorWidthPx |-> 36,
     familyIncludeThreshold |-> 25, familyOptionalThreshold |-> 15,
     candidateKnn |-> 6, candidateMaxDistanceUv |-> 95,
     familyPriorWeight |-> 20, constraintMinScore |-> 34,
     constraintPerBossMinScore |-> 20, edgeKeepScore |-> 18,
     enforcePlanarity |-> TRUE]

\* resolve_params: defaults, overlaid with the params stored in state.json,
\* then clamped field by field.
resolve_params(state_file, default_params) ==
    LET stored == IF IsSome(state_file) THEN Get(state_file).params ELSE << >>
        m == [k \in DOMAIN default_params |->
                 IF IsSome(state_file) /\ k \in DOMAIN stored
                 THEN stored[k] ELSE default_params[k]]
    IN [includeCornerAnchors |-> m.includeCornerAnchors,
        includeHalfAnchors |-> m.includeHalfAnchors,
        crossTolerance |-> Clamp(1, 200, m.crossTolerance),
        corridorWidthPx |-> Clamp(3, 256, m.corridorWidthPx),
        familyIncludeThreshold |-> Clamp(0, 100, m.familyIncludeThreshold),
        familyOptionalThreshold |-> Clamp(0, 100, m.familyOptionalThreshold),
        candidateKnn |-> Clamp(1, 32, m.candidateKnn),
        candidateMaxDistanceUv |-> Clamp(10, 200, m.candidateMaxDistanceUv),
        familyPriorWeight |-> Clamp(0, 100, m.familyPriorWeight),
        constraintMinScore |-> Clamp(0, 100, m.constraintMinScore),
        constraintPerBossMinScore |-> Clamp(0, 100, m.constraintPerBossMinScore),
        edgeKeepScore |-> Clamp(0, 100, m.edgeKeepScore),
        enforcePlanarity |-> m.enforcePlanarity]

\* A variant that rewrites state.json without the params.
write_state_noparams(params, result, now) ==
    Some([params |-> << >>, updatedAt |-> now,
          lastRun |-> IF IsSome(result)
                      THEN Some([ranAt |-> Get(result).ranAt,
                                 nodeCount |-> Get(result).nodeCount,
                                 edgeCount |-> Get(result).edgeCount,
                                 enabledConstraintFamilies |->
                                     Get(result).enabledConstraintFamilies])
                      ELSE None])

\* write_state: the state.json payload.  `result` is optional; lastRun is
\* written only when a result (or summary) is given.
write_state(params, result, now) ==
    Some([params |-> params, updatedAt |-> now,
          lastRun |-> IF IsSome(result)
                      THEN Some([ranAt |-> Get(result).ranAt,
                                 nodeCount |-> Get(result).nodeCount,
                                 edgeCount |-> Get(result).edgeCount,
                                 enabledConstraintFamilies |->
                                     Get(result).enabledConstraintFamilies])
                      ELSE None])

\* A variant that falls back to a unit ROI when roi.json is missing.
load_roi_params_default(roi_file) ==
    IF ~IsSome(roi_file)
    THEN Some([cx |-> 0, cy |-> 0, w |-> 1, h |-> 1, rotation_deg |-> 0, scale |-> 1])
    ELSE Some(Get(roi_file).params)

\* load_roi_params: None stands for the FileNotFoundError.
load_roi_params(roi_file) ==
    IF ~IsSome(roi_file) THEN None ELSE Some(Get(roi_file).params)

\* _sort_boss_rows: numeric ids in ascending order.
_sort_boss_rows(rows) ==
    Items(SortByKey([k \in 1..Len(rows) |-> <<rows[k].id, rows[k]>>]))

_load_raw_boss_rows(boss_file) ==
    LET bosses == Get(boss_file).bosses
    IN _sort_boss_rows([k \in 1..Len(bosses) |->
                           [id |-> bosses[k].id, uv |-> bosses[k].centroid_uv,
                            source |-> "raw"]])

\* One CSV row resolved against the raw rows: << >> when the row yields
\* nothing, else the resolved boss row.
ResolveCsvRow(row, raw_rows) ==
    IF row.matched /\ IsSome(row.template_uv)
    THEN Some([id |-> row.boss_id, uv |-> Get(row.template_uv), source |-> "ideal"])
    ELSE IF IsSome(row.boss_uv)
    THEN Some([id |-> row.boss_id, uv |-> Get(row.boss_uv), source |-> "raw"])
    ELSE LET hit == SelectSeq(raw_rows, LAMBDA r : r.id = row.boss_id)
         IN IF hit = << >> THEN None ELSE Some(hit[Len(hit)])

\* load_boss_rows: requires boss_report.json; prefers the rows of the match
\* CSV (a later row of the same boss replaces an earlier one) and appends
\* the raw bosses the CSV does not mention.
load_boss_rows(boss_file, match_csv) ==
    LET raw_rows == _load_raw_boss_rows(boss_file)
        csv == Get(match_csv)
        ids == {csv[k].boss_id : k \in {j \in 1..Len(csv) :
                                          IsSome(ResolveCsvRow(csv[j], raw_rows))}}
        LastRow(id) == LET ks == {k \in 1..Len(csv) :
                                     /\ csv[k].boss_id = id
                                     /\ IsSome(ResolveCsvRow(csv[k], raw_rows))}
                       IN csv[CHOOSE k \in ks : \A j \in ks : j <= k]
        resolved == {Get(ResolveCsvRow(LastRow(id), raw_rows)) : id \in ids}
        missing == {raw_rows[k] : k \in {j \in 1..Len(raw_rows) : raw_rows[j].id \notin ids}}
    IN IF ~IsSome(match_csv) THEN raw_rows
       ELSE _sort_boss_rows(SeqOfSet(resolved \cup missing))

(***************************************************************************)
(* Stage 4.1 inputs (roi_adapter.py, prepare_bosses.py).  The boss mask is *)
(* represented by its connected components [x, y, area] (centroid pixel    *)
(* and pixel count).  Timestamps, paths and the vault-ratio fields of the  *)
(* two payloads are left out.                                              *)
(***************************************************************************)
_build_roi_params(saved_roi) ==
    [cx |-> saved_roi.x, cy |-> saved_roi.y, w |-> saved_roi.width,
     h |-> saved_roi.height, rotation_deg |-> saved_roi.rotation, scale |-> 1]

\* The roi.json payload written by prepare_roi_for_geometry2d; the fields
\* _prepare_sync adds later are absent (None) at this point.
prepare_roi_for_geometry2d(saved_roi) ==
    [params |-> _build_roi_params(saved_roi), original_params |-> None,
     correction_requested |-> None, corrected_params |-> None,
     correction_applied |-> None, auto_correction |-> None]

\* sort(key=lambda p: (p[1], p[0])): by y, then by x.
SortByYX(points) ==
    LET by_x == Items(SortByKey([k \in 1..Len(points) |-> <<points[k].x, points[k]>>]))
    IN Items(SortByKey([k \in 1..Len(by_x) |-> <<by_x[k].y, by_x[k]>>]))

_extract_centroids(mask, min_area) ==
    SortByYX(SelectSeq(mask, LAMBDA c : c.area >= min_area))

_parse_manual_points(points) ==
    IF ~IsSome(points) \/ Get(points) = << >> THEN None
    ELSE Some(SortByYX([k \in 1..Len(Get(points)) |->
                           [x |-> Get(points)[k][1], y |-> Get(points)[k][2], area |-> 0]]))

\* prepare_bosses_for_geometry2d: [ok, error, payload]; on success the
\* payload is what it writes to boss_report.json.
prepare_bosses_for_geometry2d(boss_mask, roi_params, manual_bosses, min_area) ==
    IF ~IsSome(boss_mask)
    THEN [ok |-> FALSE, error |-> "Boss group mask not found", payload |-> None]
    ELSE LET manual_points == _parse_manual_points(manual_bosses)
             points_xy == IF IsSome(manual_points) THEN Get(manual_points)
                          ELSE _extract_centroids(Get(boss_mask), min_area)
             Uv(k) == image_to_unit(<<points_xy[k].x, points_xy[k].y>>, roi_params)
             bosses == [k \in 1..Len(points_xy) |->
                           [id |-> k, area |-> points_xy[k].area,
                            centroid_xy |-> <<points_xy[k].x, points_xy[k].y>>,
                            centroid_uv |-> Get(Uv(k)),
                            out_of_bounds |-> ~(/\ Get(Uv(k))[1] >= 0 /\ Get(Uv(k))[1] <= G
                                                /\ Get(Uv(k))[2] >= 0 /\ Get(Uv(k))[2] <= G)]]
         IN IF \E k \in 1..Len(points_xy) : ~IsSome(Uv(k))
            THEN [ok |-> FALSE,
                  error |-> "ROI width/height cannot be zero when converting coordinates",
                  payload |-> None]
            ELSE [ok |-> TRUE, error |-> "",
                  payload |-> Some([roi |-> roi_params, boss_count |-> Len(bosses),
                                    detection_mode |-> IF IsSome(manual_points)
                                                       THEN "manual" ELSE "auto",
                                    bosses |-> bosses])]

(***************************************************************************)
(* ROI auto-correction (roi_correction.py).  Search options are integers:  *)
(* tolerance in units of 1/G, xy_range in pixels, scale_range in percent,  *)
(* rotation_range in degrees, regularisation_weight in percent,            *)
(* improvement_margin in thousandths.  The steps are in the units of their *)
(* lower clamp bounds: xy_step in half pixels (0.5), scale_step in tenths  *)
(* of a percent (0.001), rotation_step in twentieths of a degree (0.05).   *)
(* Scores and objectives are integers in units of 1/ScoreUnit; ScoreUnit   *)
(* is a common multiple of every denominator the score formula produces    *)
(* for up to four bosses and tolerances of 1..5 units, so the comparisons  *)
(* of the search are exact.  The request config names every option, so no  *)
(* preset value survives the merge; tolerance values are at least one      *)
(* unit, below which its lower clamp bound (0.001) lies.                   *)
(***************************************************************************)
ScoreUnit == 720000

resolve_auto_correct_options(cfg) ==
    LET n0 == Max2(2, Min2(6, cfg.n_range[1]))
        n1 == Max2(n0, Min2(6, cfg.n_range[2]))
    IN [tolerance |-> Min2(5, cfg.tolerance),
        xy_step |-> Max2(1, Min2(16, cfg.xy_step)),
        xy_range |-> Max2(4, Min2(40, cfg.xy_range)),
        n_range |-> <<n0, n1>>,
        include_scale |-> cfg.include_scale,
        scale_step |-> Max2(1, Min2(50, cfg.scale_step)),
        scale_range |-> Max2(0, Min2(8, cfg.scale_range)),
        include_rotation |-> cfg.include_rotation,
        rotation_step |-> Max2(1, Min2(40, cfg.rotation_step)),
        rotation_range |-> Max2(0, Min2(8, cfg.rotation_range)),
        regularisation_weight |-> Max2(0, Min2(100, cfg.regularisation_weight)),
        improvement_margin |-> Max2(0, Min2(100, cfg.improvement_margin)),
        preset |-> IF cfg.preset \in {"fast", "balanced", "precise"}
                   THEN cfg.preset ELSE "balanced"]

_extract_boss_xy(boss_payload) ==
    [k \in 1..Len(boss_payload.bosses) |-> boss_payload.bosses[k].centroid_xy]

\* generate_keypoints("standard", n): the ratios i/n of the grid, ascending.
StandardRatios(n) == [i \in 1..(n + 1) |-> RoundDiv((i - 1) * G, n)]

\* generate_keypoints("inner", roi) for a square ROI: the distinct u (and,
\* by symmetry, v) coordinates of the circle-starcut keypoints, in 1/G.
InnerRatios == <<0, 10, 15, 20, 25, 33, 40, 50, 60, 67, 75, 80, 85, 90, 100>>

\* The candidate templates of the search, as <<x_ratios, y_ratios>> pairs.
CandidateRatios(n_range) ==
    [k \in 1..(Max2(0, Min2(n_range[2] + 1, 6) - n_range[1])) |->
        <<StandardRatios(n_range[1] + k - 1), StandardRatios(n_range[1] + k - 1)>>]
    \o << <<InnerRatios, InnerRatios>> >>

RECURSIVE SumSeq(_)
SumSeq(s) == IF s = << >> THEN 0 ELSE Head(s) + SumSeq(Tail(s))

MinOf(S) == CHOOSE d \in S : \A e \in S : d <= e

MaxOf(S) == CHOOSE d \in S : \A e \in S : e <= d

\* np.min(np.abs(x - ratios))
MinDist(x, ratios) == MinOf({Abs(x - ratios[i]) : i \in 1..Len(ratios)})

\* The score of one template from the bosses' <<x_dist, y_dist>> pairs.
ScoreOfDists(dists, tolerance) ==
    LET n_bosses == Len(dists)
        matched == SelectSeq(dists, LAMBDA d : d[1] <= tolerance /\ d[2] <= tolerance)
        matched_bosses == Len(matched)
        err_sum == SumSeq([k \in 1..matched_bosses |-> matched[k][1] + matched[k][2]])
    IN IF matched_bosses = 0 THEN -ScoreUnit
       ELSE Clamp(-ScoreUnit, ScoreUnit,
                  (ScoreUnit * matched_bosses) \div n_bosses
                  - ((ScoreUnit \div 8) * err_sum) \div (matched_bosses * tolerance)
                  - ((ScoreUnit \div 20) * (n_bosses - matched_bosses)) \div n_bosses)

TemplateScore(bosses_uv, x_ratios, y_ratios, tolerance) ==
    ScoreOfDists([k \in 1..Len(bosses_uv) |->
                     <<MinDist(bosses_uv[k][1], x_ratios), MinDist(bosses_uv[k][2], y_ratios)>>],
                 tolerance)

BossesUv(roi, bosses_xy) ==
    [k \in 1..Len(bosses_xy) |-> Get(image_to_unit(bosses_xy[k], roi))]

BestTemplateScore(bosses_uv, candidate_ratios, tolerance) ==
    MaxOf({TemplateScore(bosses_uv, candidate_ratios[k][1], candidate_ratios[k][2], tolerance)
           : k \in 1..Len(candidate_ratios)})

_score_roi(roi, bosses_xy, candidate_ratios, tolerance) ==
    BestTemplateScore(BossesUv(roi, bosses_xy), candidate_ratios, tolerance)

\* The penalty times 400.
_regularisation_penalty(dx, dy, sw, sh, drot, xy_range, rotation_range, include_scale, include_rotation) ==
    LET Sq(a, range) == IF a = 0 THEN 0 ELSE (400 * a * a) \div (range * range)
    IN Sq(dx, xy_range) + Sq(dy, xy_range)
       + (IF include_scale
          THEN (4 * (sw - 100) * (sw - 100)) \div 100 + (4 * (sh - 100) * (sh - 100)) \div 100
          ELSE 0)
       + (IF include_rotation THEN Sq(drot, rotation_range) ELSE 0)

\* max(1, int(round(2 * range / step)) + 1), range and step in one unit.
SampleCount(range, step) == Max2(1, RoundDiv(2 * range, step) + 1)

\* np.linspace(lo, hi, num)
linspace(lo, hi, num) ==
    [i \in 1..num |-> IF num = 1 THEN lo ELSE lo + ((i - 1) * (hi - lo)) \div (num - 1)]

IdentityDelta == [dx |-> 0, dy |-> 0, sw |-> 100, sh |-> 100, drot_deg |-> 0]

\* The k-th (0-based) iteration of the nested loops over dx, dy, sw, sh, drot.
SearchDelta(dx_vals, sw_vals, rot_vals, k) ==
    LET nr == Len(rot_vals)
        ns == Len(sw_vals)
        nx == Len(dx_vals)
    IN [dx |-> dx_vals[(k \div (nr * ns * ns * nx)) + 1],
        dy |-> dx_vals[((k \div (nr * ns * ns)) % nx) + 1],
        sw |-> sw_vals[((k \div (nr * ns)) % ns) + 1],
        sh |-> sw_vals[((k \div nr) % ns) + 1],
        drot_deg |-> rot_vals[(k % nr) + 1]]

ApplyDelta(original_roi, d) ==
    [original_roi EXCEPT !.cx = @ + d.dx, !.cy = @ + d.dy,
                         !.w = (@ * d.sw) \div 100, !.h = (@ * d.sh) \div 100,
                         !.rotation_deg = @ + d.drot_deg]

\* A variant whose objective adds the regularisation term instead of
\* subtracting it.
Scored_rewarded(d, roi_test, score, penalty, regularisation_weight) ==
    [obj |-> score + (ScoreUnit \div 40000) * regularisation_weight * penalty,
     score |-> score, roi |-> roi_test, delta |-> d]

\* One iteration of the loop: the candidate's [obj, score, roi, delta].
Scored(d, roi_test, score, penalty, regularisation_weight) ==
    [obj |-> score - (ScoreUnit \div 40000) * regularisation_weight * penalty,
     score |-> score, roi |-> roi_test, delta |-> d]

TryDelta(original_roi, bosses_xy, candidate_ratios, o, d) ==
    Scored(d, ApplyDelta(original_roi, d),
           _score_roi(ApplyDelta(original_roi, d), bosses_xy, candidate_ratios, o.tolerance),
           _regularisation_penalty(d.dx, d.dy, d.sw, d.sh, d.drot_deg, o.xy_range,
                                   o.rotation_range, o.include_scale, o.include_rotation),
           o.regularisation_weight)

\* `best` after the loop.  A candidate replaces the running best only when
\* its objective is strictly better, so the loop ends with the first
\* candidate of maximal objective if that beats the base, else with the base.
FirstWith(tried, top) ==
    tried[CHOOSE k \in 1..Len(tried) :
             /\ tried[k].obj = top
             /\ \A j \in 1..(k - 1) : tried[j].obj # top]

LoopResult(tried, base) ==
    IF tried # << >> /\ MaxOf({tried[k].obj : k \in 1..Len(tried)}) > base.obj
    THEN FirstWith(tried, MaxOf({tried[k].obj : k \in 1..Len(tried)}))
    ELSE base

Search(original_roi, bosses_xy, candidate_ratios, o, dx_vals, sw_vals, rot_vals, base) ==
    LoopResult([k \in 1..(Len(dx_vals) * Len(dx_vals) * Len(sw_vals) * Len(sw_vals)
                          * Len(rot_vals)) |->
                   TryDelta(original_roi, bosses_xy, candidate_ratios, o,
                            SearchDelta(dx_vals, sw_vals, rot_vals, k - 1))],
               base)

SearchFrom(original_roi, bosses_xy, candidate_ratios, o, dx_vals, sw_vals, rot_vals, base_score) ==
    [base_score |-> base_score,
     best |-> Search(original_roi, bosses_xy, candidate_ratios, o, dx_vals, sw_vals, rot_vals,
                     [obj |-> base_score, score |-> base_score, roi |-> original_roi,
                      delta |-> IdentityDelta])]

\* The grid search up to, and not including, the improvement test.
SearchBest(original_roi, bosses_xy, o) ==
    SearchFrom(original_roi, bosses_xy, CandidateRatios(o.n_range), o,
               linspace(-o.xy_range, o.xy_range,
                        SampleCount(2 * o.xy_range, o.xy_step)),
               IF o.include_scale
               THEN linspace(100 - o.scale_range, 100 + o.scale_range,
                             SampleCount(10 * o.scale_range, o.scale_step))
               ELSE <<100>>,
               IF o.include_rotation
               THEN linspace(-o.rotation_range, o.rotation_range,
                             SampleCount(20 * o.rotation_range, o.rotation_step))
               ELSE <<0>>,
               _score_roi(original_roi, bosses_xy, CandidateRatios(o.n_range), o.tolerance))

CorrectionResult(best_roi, best_delta, improved, base_score, best_score, n_bosses) ==
    Some([params |-> best_roi,
          meta |-> [method |-> "step03_score_search", preset |-> "custom",
                    improved |-> improved, base_score |-> base_score,
                    best_score |-> best_score, score_gain |-> best_score - base_score,
                    delta |-> best_delta, boss_count |-> n_bosses]])

\* A variant that skips the reset of lines 277-280 and returns the loop's
\* best candidate also when it is not an improvement.
Decide_keepbest(original_roi, found, improvement_margin, n_bosses) ==
    CorrectionResult(found.best.roi, found.best.delta,
                     found.best.score > found.base_score
                                        + (ScoreUnit \div 1000) * improvement_margin,
                     found.base_score, found.best.score, n_bosses)

\* Lines 276-308: the improvement test and the returned correction.
Decide(original_roi, found, improvement_margin, n_bosses) ==
    IF ~(found.best.score > found.base_score + (ScoreUnit \div 1000) * improvement_margin)
    THEN CorrectionResult(original_roi, IdentityDelta, FALSE, found.base_score,
                          found.base_score, n_bosses)
    ELSE CorrectionResult(found.best.roi, found.best.delta, TRUE, found.base_score,
                          found.best.score, n_bosses)

\* auto_correct_roi_params: None when the search is not attempted.
auto_correct_roi_params(original_roi, boss_payload, o) ==
    IF Len(_extract_boss_xy(boss_payload)) < 2 THEN None
    ELSE IF o.xy_step <= 0 \/ o.scale_step <= 0 \/ o.rotation_step <= 0 THEN None
    ELSE IF o.xy_range < 0 \/ o.scale_range < 0 \/ o.rotation_range < 0 THEN None
    ELSE IF o.regularisation_weight < 0 \/ o.improvement_margin < 0 THEN None
    ELSE Decide(original_roi, SearchBest(original_roi, _extract_boss_xy(boss_payload), o),
                o.improvement_margin, Len(_extract_boss_xy(boss_payload)))

(***************************************************************************)
(* Cut-typology matching (cut_typology_matching_service.py,                *)
(* utils/template_scoring.py).  Ratios, unit coordinates, the tolerance    *)
(* and the axis errors are integers in units of 1/G; tolerance values are  *)
(* at least one unit, below which its lower clamp bound (0.001) lies.  A   *)
(* variant label is the sequence of the pieces it is formatted from, so    *)
(* that reading it back is a computation on the label.  Overlays, paths    *)
(* and timestamps of the payloads are left out.                            *)
(***************************************************************************)
DEFAULT_TEMPLATE_PARAMS ==
    [starcutMin |-> 2, starcutMax |-> 6, includeStarcut |-> TRUE, includeInner |-> TRUE,
     includeOuter |-> TRUE, allowCrossTemplate |-> TRUE, tolerance |-> 1]

\* _resolve_params: None stands for the ValueError "At least one
\* cut-typology family must be enabled".
_resolve_params(raw) ==
    IF ~(raw.includeStarcut \/ raw.includeInner \/ raw.includeOuter) THEN None
    ELSE Some([starcutMin |-> Max2(2, raw.starcutMin),
               starcutMax |-> Max2(Max2(2, raw.starcutMin), raw.starcutMax),
               includeStarcut |-> raw.includeStarcut,
               includeInner |-> raw.includeInner,
               includeOuter |-> raw.includeOuter,
               allowCrossTemplate |-> raw.allowCrossTemplate,
               tolerance |-> Min2(10, raw.tolerance)])

\* generate_keypoints("outer", roi) for a square ROI: the distinct u (and,
\* by symmetry, v) coordinates of the outer circle-starcut keypoints.
OuterRatios == <<-21, 0, 15, 21, 29, 35, 41, 50, 59, 65, 71, 79, 85, 100, 121>>

_variant_label(template_type, n, subtype) ==
    IF template_type = "starcut" /\ IsSome(n) THEN <<"starcut_n=", ToString(Get(n))>>
    ELSE IF template_type = "circlecut" /\ IsSome(subtype)
    THEN <<"circlecut_", Get(subtype)>>
    ELSE <<template_type, "_", IF IsSome(subtype) THEN Get(subtype)
                               ELSE IF IsSome(n) THEN ToString(Get(n)) ELSE "?">>

\* int(text): None stands for the ValueError of a text that is no number.
ParseInt(pieces) ==
    IF Len(pieces) = 1 /\ \E k \in 0..99 : ToString(k) = pieces[1]
    THEN Some(CHOOSE k \in 0..99 : ToString(k) = pieces[1])
    ELSE None

\* A variant, with the sorted unique ratios of its template_uv in place of
\* the keypoints (extract_template_ratios).
TemplateVariant(label, template_type, variant, n, x_ratios, y_ratios, x_source, y_source) ==
    [variant_label |-> label, template_type |-> template_type, variant |-> variant,
     n |-> n, x_ratios |-> x_ratios, y_ratios |-> y_ratios,
     x_source_label |-> x_source, y_source_label |-> y_source]

CrossVariant(xv, yv) ==
    TemplateVariant(xv.variant_label \o <<"_x+">> \o yv.variant_label \o <<"_y">>,
                    "cross", "cross", None, << >>, << >>,
                    Some(xv.variant_label), Some(yv.variant_label))

\* The pairs <<a[i], b[j]>> in the order of two nested loops.
Pairs(a, b) ==
    [k \in 1..(Len(a) * Len(b)) |->
        <<a[((k - 1) \div Len(b)) + 1], b[((k - 1) % Len(b)) + 1]>>]

\* _build_variants, for a parameter set with at least one family enabled.
_build_variants(params) ==
    Bind((IF params.includeStarcut
          THEN [k \in 1..(params.starcutMax - params.starcutMin + 1) |->
                   TemplateVariant(
                       _variant_label("starcut", Some(params.starcutMin + k - 1), None),
                       "starcut", "standard", Some(params.starcutMin + k - 1),
                       StandardRatios(params.starcutMin + k - 1),
                       StandardRatios(params.starcutMin + k - 1), None, None)]
          ELSE << >>), LAMBDA starcuts :
    Bind((IF params.includeInner
          THEN <<TemplateVariant(_variant_label("circlecut", None, Some("inner")),
                                 "circlecut", "inner", None, InnerRatios, InnerRatios,
                                 None, None)>>
          ELSE << >>)
         \o (IF params.includeOuter
             THEN <<TemplateVariant(_variant_label("circlecut", None, Some("outer")),
                                    "circlecut", "outer", None, OuterRatios, OuterRatios,
                                    None, None)>>
             ELSE << >>), LAMBDA circles :
       starcuts \o circles
       \o (IF params.allowCrossTemplate
           THEN [k \in 1..(Len(starcuts) * Len(circles)) |->
                    CrossVariant(Pairs(starcuts, circles)[k][1],
                                 Pairs(starcuts, circles)[k][2])]
                \o [k \in 1..(Len(circles) * Len(starcuts)) |->
                       CrossVariant(Pairs(circles, starcuts)[k][1],
                                    Pairs(circles, starcuts)[k][2])]
           ELSE << >>)))

_get_variant_by_label(variants, label) ==
    IF \E k \in 1..Len(variants) : variants[k].variant_label = label
    THEN Some(variants[CHOOSE k \in 1..Len(variants) :
                          /\ variants[k].variant_label = label
                          /\ \A j \in 1..(k - 1) : variants[j].variant_label # label])
    ELSE None

\* int(np.argmin(np.abs(ratios - x))), 1-based: the first closest ratio.
ArgMin(ratios, x) ==
    CHOOSE i \in 1..Len(ratios) :
        /\ \A j \in 1..Len(ratios) : Abs(ratios[i] - x) <= Abs(ratios[j] - x)
        /\ \A j \in 1..(i - 1) : Abs(ratios[j] - x) > Abs(ratios[i] - x)

\* A variant with both comparisons against the tolerance turned round.
match_boss_to_ratios_flipped(boss_uv, x_ratios, y_ratios, tolerance) ==
    Bind(ArgMin(x_ratios, boss_uv[1]), LAMBDA x_min_idx :
    Bind(ArgMin(y_ratios, boss_uv[2]), LAMBDA y_min_idx :
       [x_idx |-> IF Abs(x_ratios[x_min_idx] - boss_uv[1]) >= tolerance
                  THEN Some(x_min_idx - 1) ELSE None,
        y_idx |-> IF Abs(y_ratios[y_min_idx] - boss_uv[2]) >= tolerance
                  THEN Some(y_min_idx - 1) ELSE None,
        x_dist |-> Abs(x_ratios[x_min_idx] - boss_uv[1]),
        y_dist |-> Abs(y_ratios[y_min_idx] - boss_uv[2])]))

match_boss_to_ratios(boss_uv, x_ratios, y_ratios, tolerance) ==
    Bind(ArgMin(x_ratios, boss_uv[1]), LAMBDA x_min_idx :
    Bind(ArgMin(y_ratios, boss_uv[2]), LAMBDA y_min_idx :
       [x_idx |-> IF Abs(x_ratios[x_min_idx] - boss_uv[1]) <= tolerance
                  THEN Some(x_min_idx - 1) ELSE None,
        y_idx |-> IF Abs(y_ratios[y_min_idx] - boss_uv[2]) <= tolerance
                  THEN Some(y_min_idx - 1) ELSE None,
        x_dist |-> Abs(x_ratios[x_min_idx] - boss_uv[1]),
        y_dist |-> Abs(y_ratios[y_min_idx] - boss_uv[2])]))

MatchInfo(m, x_ratios, y_ratios, x_template_label, y_template_label) ==
    [matched |-> IsSome(m.x_idx) /\ IsSome(m.y_idx),
     x_ratio_idx |-> m.x_idx, y_ratio_idx |-> m.y_idx,
     x_ratio |-> IF IsSome(m.x_idx) THEN Some(x_ratios[Get(m.x_idx) + 1]) ELSE None,
     y_ratio |-> IF IsSome(m.y_idx) THEN Some(y_ratios[Get(m.y_idx) + 1]) ELSE None,
     x_dist |-> m.x_dist, y_dist |-> m.y_dist,
     x_template |-> x_template_label, y_template |-> y_template_label]

\* The match info of every boss, in boss order.
_match_with_ratio_sets(bosses_uv, x_ratios, y_ratios, tolerance, x_template_label, y_template_label) ==
    [k \in 1..Len(bosses_uv) |->
        MatchInfo(match_boss_to_ratios(bosses_uv[k], x_ratios, y_ratios, tolerance),
                  x_ratios, y_ratios, x_template_label, y_template_label)]

\* One pass of the loop over the variants: None for a cross variant whose
\* source is not among the variants (the `continue`), else the match info
\* of every boss.
VariantMatches(variants, variant, bosses_uv, tolerance) ==
    IF IsSome(variant.x_source_label) /\ IsSome(variant.y_source_label)
    THEN Bind(_get_variant_by_label(variants, Get(variant.x_source_label)), LAMBDA x_source :
         Bind(_get_variant_by_label(variants, Get(variant.y_source_label)), LAMBDA y_source :
            IF ~IsSome(x_source) \/ ~IsSome(y_source) THEN None
            ELSE Some(_match_with_ratio_sets(bosses_uv, Get(x_source).x_ratios,
                                             Get(y_source).y_ratios, tolerance,
                                             variant.x_source_label,
                                             variant.y_source_label))))
    ELSE Some(_match_with_ratio_sets(bosses_uv, variant.x_ratios, variant.y_ratios,
                                     tolerance, None, None))

VariantSummary(variant, matched, points_with_uv) ==
    Bind(SelectSeq([k \in 1..Len(matched) |-> k], LAMBDA k : matched[k].matched),
         LAMBDA matched_indices :
       [variantLabel |-> variant.variant_label, templateType |-> variant.template_type,
        variant |-> variant.variant, n |-> variant.n,
        isCrossTemplate |-> IsSome(variant.x_source_label) /\ IsSome(variant.y_source_label),
        xTemplate |-> variant.x_source_label, yTemplate |-> variant.y_source_label,
        matchedCount |-> Len(matched_indices),
        coverage |-> <<Len(matched_indices), Len(points_with_uv)>>,
        matchedBossIds |-> [j \in 1..Len(matched_indices) |->
                               points_with_uv[matched_indices[j]].id]])

\* The variants that were matched, in build order, each with its summary
\* and its per-boss match info.
EvaluateVariants(variants, points_with_uv, tolerance) ==
    Bind([k \in 1..Len(variants) |->
             VariantMatches(variants, variants[k],
                            [j \in 1..Len(points_with_uv) |->
                                <<points_with_uv[j].u, points_with_uv[j].v>>],
                            tolerance)], LAMBDA results :
       [k \in 1..Len(SelectSeq([j \in 1..Len(variants) |-> j],
                               LAMBDA j : IsSome(results[j]))) |->
           Bind(SelectSeq([j \in 1..Len(variants) |-> j],
                          LAMBDA j : IsSome(results[j]))[k], LAMBDA j :
              [summary |-> VariantSummary(variants[j], Get(results[j]), points_with_uv),
               matched |-> Get(results[j])])])

BossMatch(summary, info) ==
    [variantLabel |-> summary.variantLabel, templateType |-> summary.templateType,
     isCrossTemplate |-> summary.isCrossTemplate,
     xTemplate |-> info.x_template, yTemplate |-> info.y_template,
     xRatio |-> info.x_ratio, yRatio |-> info.y_ratio,
     xError |-> info.x_dist, yError |-> info.y_dist,
     xRatioIndex |-> info.x_ratio_idx, yRatioIndex |-> info.y_ratio_idx]

\* The rows of perBoss: every point with its matches in variant order.
PerBossRows(points_with_uv, evaluated) ==
    [idx \in 1..Len(points_with_uv) |->
        Bind(SelectSeq(evaluated, LAMBDA e : e.matched[idx].matched), LAMBDA hits :
           [id |-> points_with_uv[idx].id, label |-> points_with_uv[idx].label,
            x |-> points_with_uv[idx].x, y |-> points_with_uv[idx].y,
            source |-> points_with_uv[idx].source,
            u |-> points_with_uv[idx].u, v |-> points_with_uv[idx].v,
            outOfBounds |-> points_with_uv[idx].outOfBounds,
            matchedAny |-> Len(hits) > 0,
            matchedCount |-> Len(hits),
            matches |-> [k \in 1..Len(hits) |->
                            BossMatch(hits[k].summary, hits[k].matched[idx])]])]

\* Tuple comparison of Python on integer sequences.
RECURSIVE LexLess(_, _)
LexLess(a, b) ==
    IF b = << >> THEN FALSE
    ELSE IF a = << >> THEN TRUE
    ELSE IF Head(a) # Head(b) THEN Head(a) < Head(b)
    ELSE LexLess(Tail(a), Tail(b))

RECURSIVE LexInsert(_, _)
LexInsert(sorted, x) ==
    IF sorted = << >> THEN <<x>>
    ELSE IF LexLess(x[1], Head(sorted)[1]) THEN <<x>> \o sorted
    ELSE <<Head(sorted)>> \o LexInsert(Tail(sorted), x)

RECURSIVE LexInsertAll(_, _, _)
LexInsertAll(acc, s, i) ==
    IF i > Len(s) THEN acc ELSE LexInsertAll(LexInsert(acc, s[i]), s, i + 1)

\* sorted(s, key = ...) for <<key, item>> pairs: stable, ascending.
SortByLexKey(s) == LexInsertAll(<< >>, s, 1)

\* The decimal digits of n, then a mark that sorts after every digit, as
\* the "_" that follows a number inside a cross label does.
RECURSIVE Digits(_)
Digits(n) == IF n < 10 THEN <<n>> ELSE Digits(n \div 10) \o <<n % 10>>

\* The string order of the labels that tie on count, complexity and n (the
\* cross labels), as an integer sequence per label.
PieceKey(piece) ==
    CASE piece \in {"circlecut_", "inner", "_x+", "_y"} -> <<0>>
      [] piece \in {"starcut_n=", "outer"} -> <<1>>
      [] OTHER -> Digits(Get(ParseInt(<<piece>>))) \o <<10>>

RECURSIVE LabelKey(_)
LabelKey(label) ==
    IF label = << >> THEN << >> ELSE PieceKey(Head(label)) \o LabelKey(Tail(label))

_variant_summary_rank_key(summary) ==
    <<-summary.matchedCount,
      IF summary.templateType = "starcut" THEN 0
      ELSE IF summary.templateType = "circlecut"
      THEN (IF summary.variantLabel = <<"circlecut_", "inner">> THEN 1 ELSE 2)
      ELSE IF summary.templateType = "cross" \/ summary.isCrossTemplate THEN 3
      ELSE 4,
      IF IsSome(summary.n) THEN Get(summary.n) ELSE 9999>>
    \o LabelKey(summary.variantLabel)

\* _variant_priority reads the family and n back from the label text.
_variant_priority(variant_label) ==
    IF Head(variant_label) = "starcut_n="
    THEN (IF IsSome(ParseInt(Tail(variant_label)))
          THEN <<0, Get(ParseInt(Tail(variant_label)))>> ELSE <<0, 9999>>)
    ELSE IF variant_label = <<"circlecut_", "inner">> THEN <<1, 0>>
    ELSE IF variant_label = <<"circlecut_", "outer">> THEN <<2, 0>>
    ELSE <<3, 9999>>

\* float(error or 9999.0): a falsy error, 0.0 included, becomes 9999.
ErrorOr9999(e) == IF e = 0 THEN 9999 * G ELSE e

SimplestKey(match) ==
    _variant_priority(match.variantLabel)
    \o <<ErrorOr9999(match.xError) + ErrorOr9999(match.yError)>>

_select_simplest_match(matches) ==
    IF matches = << >> THEN None
    ELSE Some(SortByLexKey([k \in 1..Len(matches) |->
                               <<SimplestKey(matches[k]), matches[k]>>])[1][2])

\* One row of the match CSV.  str() of a value is read back unchanged by
\* the reader, so each cell holds the value, None for the text "None".
CsvRow(roi, point) ==
    IF point.matches = << >>
    THEN [boss_id |-> point.id, variant_label |-> None, template_type |-> None,
          x_cut |-> None, y_cut |-> None, boss_uv |-> Some(<<point.u, point.v>>),
          template_uv |-> None, boss_xy |-> <<point.x, point.y>>, template_xy |-> None,
          x_error |-> None, y_error |-> None, matched |-> FALSE]
    ELSE Bind(Get(_select_simplest_match(point.matches)), LAMBDA match :
            [boss_id |-> point.id, variant_label |-> Some(match.variantLabel),
             template_type |-> Some(match.templateType),
             x_cut |-> IF match.isCrossTemplate THEN match.xTemplate
                       ELSE Some(match.variantLabel),
             y_cut |-> IF match.isCrossTemplate THEN match.yTemplate
                       ELSE Some(match.variantLabel),
             boss_uv |-> Some(<<point.u, point.v>>),
             template_uv |-> Some(<<Get(match.xRatio), Get(match.yRatio)>>),
             boss_xy |-> <<point.x, point.y>>,
             template_xy |-> Some(unit_to_image(<<Get(match.xRatio), Get(match.yRatio)>>,
                                                roi)),
             x_error |-> Some(match.xError), y_error |-> Some(match.yError),
             matched |-> IsSome(match.xRatio) /\ IsSome(match.yRatio)])

_write_match_csv(roi, per_boss_rows) ==
    [k \in 1..Len(per_boss_rows) |-> CsvRow(roi, per_boss_rows[k])]

\* _load_roi_params of the matching service: None stands for the
\* FileNotFoundError.
_load_roi_params(roi_file) ==
    IF ~IsSome(roi_file) THEN None ELSE Some(Get(roi_file).params)

\* _load_base_points: the bosses of boss_report.json as points, by id.
_load_base_points(boss_file) ==
    Items(SortByKey([k \in 1..Len(Get(boss_file).bosses) |->
                        <<Get(boss_file).bosses[k].id,
                          [id |-> Get(boss_file).bosses[k].id,
                           label |-> ToString(Get(boss_file).bosses[k].id),
                           x |-> Get(boss_file).bosses[k].centroid_xy[1],
                           y |-> Get(boss_file).bosses[k].centroid_xy[2],
                           source |-> "auto"]>>]))

\* _normalise_points: the error of the first offending row, else the rows
\* sorted by id.
_normalise_points(points) ==
    Bind({k \in 1..Len(points) :
             \/ points[k].id <= 0
             \/ \E j \in 1..(k - 1) : points[j].id = points[k].id}, LAMBDA bad :
       IF bad # {}
       THEN [ok |-> FALSE,
             error |-> IF points[MinOf(bad)].id <= 0
                       THEN "Point id must be a positive integer"
                       ELSE "Duplicate point id",
             points |-> << >>]
       ELSE [ok |-> TRUE, error |-> "",
             points |-> Items(SortByKey([k \in 1..Len(points) |->
                                 <<points[k].id,
                                   [id |-> points[k].id, label |-> ToString(points[k].id),
                                    x |-> points[k].x, y |-> points[k].y,
                                    source |-> points[k].source]>>]))])

\* _attach_uv, for an ROI of non-zero width and height.
_attach_uv(points, roi) ==
    [k \in 1..Len(points) |->
        Bind(Get(image_to_unit(<<points[k].x, points[k].y>>, roi)), LAMBDA uv :
           [id |-> points[k].id, label |-> points[k].label, x |-> points[k].x,
            y |-> points[k].y, source |-> points[k].source, u |-> uv[1], v |-> uv[2],
            outOfBounds |-> ~(-2 <= uv[1] /\ uv[1] <= G + 2
                              /\ -2 <= uv[2] /\ uv[2] <= G + 2)])]

\* Lines 209-315 of _run_matching_sync: the payload and the CSV rows for
\* a non-empty point list.
MatchingPayload(roi, resolved_params, points_with_uv) ==
    Bind(EvaluateVariants(_build_variants(resolved_params), points_with_uv,
                          resolved_params.tolerance), LAMBDA evaluated :
    Bind(PerBossRows(points_with_uv, evaluated), LAMBDA per_boss_rows :
    Bind(Items(SortByLexKey([k \in 1..Len(evaluated) |->
                                <<_variant_summary_rank_key(evaluated[k].summary),
                                  evaluated[k].summary>>])), LAMBDA variant_summaries :
       [csv |-> _write_match_csv(roi, per_boss_rows),
        payload |-> [roi |-> roi, params |-> resolved_params, points |-> points_with_uv,
                     variants |-> variant_summaries, perBoss |-> per_boss_rows,
                     bestVariantLabel |-> IF variant_summaries = << >> THEN None
                                          ELSE Some(variant_summaries[1].variantLabel)]])))

(***************************************************************************)
(* Bay-plan orchestrator (bay_plan_reconstruction_service.py).             *)
(***************************************************************************)
\* Families of the constraint edges, in order of first appearance in the
\* sorted edge list.
EnabledFamilies(nodes, constraint_edges) ==
    LET sorted == SortedPairs(constraint_edges)
        Fam(k) == classify_segment_family(NodeAt(nodes, sorted[k][1]).uv,
                                          NodeAt(nodes, sorted[k][2]).uv)
        firsts == SelectSeq([k \in 1..Len(sorted) |-> <<k, Fam(k)>>],
                            LAMBDA e : /\ e[2] # "None"
                                       /\ \A j \in 1..(e[1] - 1) : Fam(j) # e[2])
    IN Items(firsts)

\* Lines 153-232 of _run_reconstruction_sync: the constraint edges and the
\* fallback bookkeeping for the collected nodes.
ConstraintStage(params, nodes, rib_union_mask) ==
    Bind(build_segment_edges(nodes, BoundarySegments, params.crossTolerance),
         LAMBDA boundary_edges :
    IF ~IsSome(rib_union_mask)
    THEN [boundary_edges |-> boundary_edges, constraint_edges |-> boundary_edges,
          family_scores |-> NoFamilyScores, enabled_families |-> << >>,
          fallback_applied |-> TRUE, fallback_reason |-> "no rib masks"]
    ELSE Bind(score_constraint_families(Get(rib_union_mask)), LAMBDA family_scores :
         Bind(gate_constraint_families(family_scores, params.familyIncludeThreshold,
                                       params.familyOptionalThreshold),
              LAMBDA fallback_family_selection :
         Bind(build_segment_edges(nodes, segments_for_families(fallback_family_selection),
                                  params.crossTolerance)
                  \cup build_knn_candidate_edges(nodes, params.candidateKnn,
                                                 params.candidateMaxDistanceUv)
                  \cup boundary_edges, LAMBDA candidate_edges :
         Bind(select_constraint_edges(
                  nodes,
                  score_candidate_edges(Get(rib_union_mask), nodes, candidate_edges,
                                        Some(family_scores), params.familyPriorWeight),
                  params.constraintMinScore, boundary_edges,
                  params.constraintPerBossMinScore, Max2(4, Len(nodes) \div 2),
                  params.enforcePlanarity), LAMBDA constraint_edges :
         Bind(EnabledFamilies(nodes, constraint_edges), LAMBDA enabled :
         Bind(Cardinality(constraint_edges) <= Cardinality(boundary_edges), LAMBDA weak :
            [boundary_edges |-> boundary_edges, constraint_edges |-> constraint_edges,
             family_scores |-> family_scores,
             enabled_families |-> IF weak /\ enabled = << >>
                                  THEN fallback_family_selection ELSE enabled,
             fallback_applied |-> weak,
             fallback_reason |-> IF weak THEN "weak rib support" ELSE ""])))))))

UsedBosses(boss_rows, roi) ==
    [k \in 1..Len(boss_rows) |->
        [id |-> IdStr(boss_rows[k].id), x |-> unit_to_image(boss_rows[k].uv, roi)[1],
         y |-> unit_to_image(boss_rows[k].uv, roi)[2], source |-> boss_rows[k].source]]

\* Lines 234-320: triangulate, prune, and assemble the result payload.
RunPayload(params, roi, boss_rows, rib_union_mask, nodes0, stage, tri, now) ==
    Bind(build_cdt_edges(nodes0, stage.constraint_edges, roi, tri), LAMBDA cdt :
    Bind(IF IsSome(rib_union_mask)
         THEN filter_reconstructed_edges(rib_union_mask, cdt.nodes, cdt.edges,
                                         stage.constraint_edges, params.edgeKeepScore)
         ELSE [edges |-> cdt.edges, threshold |-> 0], LAMBDA pruned :
    Bind(SortedPairs(pruned.edges), LAMBDA edges :
    Bind(UsedBosses(boss_rows, roi), LAMBDA used_bosses :
       [ranAt |-> now,
        nodeCount |-> Len(cdt.nodes),
        edgeCount |-> Len(edges),
        constraintEdgeCount |-> Cardinality(stage.constraint_edges),
        idealBossUsedCount |-> Len(SelectSeq(boss_rows, LAMBDA r : r.source = "ideal")),
        bossCount |-> Len(boss_rows),
        enabledConstraintFamilies |-> stage.enabled_families,
        familySupportScores |-> stage.family_scores,
        fallbackApplied |-> stage.fallback_applied,
        fallbackReason |-> stage.fallback_reason,
        params |-> params,
        edgeKeepThreshold |-> pruned.threshold,
        nodes |-> [k \in 1..Len(cdt.nodes) |->
                      [id |-> cdt.nodes[k].node_id, bossId |-> cdt.nodes[k].boss_id,
                       source |-> cdt.nodes[k].source,
                       u |-> cdt.nodes[k].uv[1], v |-> cdt.nodes[k].uv[2],
                       x |-> cdt.nodes[k].xy[1], y |-> cdt.nodes[k].xy[2]]],
        usedBosses |-> used_bosses,
        idealBosses |-> SelectSeq(used_bosses, LAMBDA r : r.source = "ideal"),
        extractedBosses |-> SelectSeq(used_bosses, LAMBDA r : r.source = "raw"),
        edges |-> [k \in 1..Len(edges) |->
                      [a |-> edges[k][1], b |-> edges[k][2],
                       isConstraint |-> edges[k] \in stage.constraint_edges]]]))))

\* The router's response envelope: success with data, or success = false
\* with str(e) of whatever exception the service raised.
Response(op, success, error, data) ==
    [op |-> op, success |-> success, error |-> error, data |-> data]

Reply(r) == resp' = r /\ prev' = resp

(***************************************************************************)
(* POST /roi-bay-proportion/prepare: RoiBayProportionService._prepare_sync *)
(* behind its router.  roi.json is written before the bosses are           *)
(* extracted, so a failure of the boss step leaves the new roi.json.       *)
(***************************************************************************)
PrepareFail(error, roi_file) ==
    /\ Reply(Response("prepare", FALSE, error, None))
    /\ roiFile' = roi_file
    /\ UNCHANGED bossFile

PrepareDone(roi_payload, boss_payload) ==
    /\ Reply(Response("prepare", TRUE, "",
                      Some([roi |-> roi_payload, bossReport |-> boss_payload])))
    /\ roiFile' = Some(roi_payload)
    /\ bossFile' = Some(boss_payload)

\* A variant that keeps the first boss report when the correction is applied.
ApplyCorrection_stalebosses(requested, first_payload, correction, preset, auto_correct_roi, manual_bosses, min_boss_area) ==
    IF IsSome(correction)
    THEN LET corrected_params == Get(correction).params
             correction_meta == [Get(correction).meta EXCEPT !.preset = preset]
             improved == correction_meta.improved
             final == [requested EXCEPT
                          !.corrected_params = Some(corrected_params),
                          !.correction_applied = Some(improved),
                          !.auto_correction = Some(correction_meta),
                          !.params = IF improved THEN corrected_params
                                     ELSE Get(requested.original_params)]
         IN IF improved
            THEN PrepareDone(final, first_payload)
            ELSE PrepareDone(final, first_payload)
    ELSE PrepareDone([requested EXCEPT
                         !.correction_applied = Some(FALSE),
                         !.auto_correction =
                             IF auto_correct_roi
                             THEN Some([method |-> "boss_uv_bbox", status |-> "skipped",
                                        reason |-> "not_enough_in_bounds_boss_points_or_invalid_roi"])
                             ELSE None],
                     first_payload)

\* Lines 68-100 of _prepare_sync, once the correction (or None) is known.
ApplyCorrection(requested, first_payload, correction, preset, auto_correct_roi, manual_bosses, min_boss_area) ==
    IF IsSome(correction)
    THEN LET corrected_params == Get(correction).params
             correction_meta == [Get(correction).meta EXCEPT !.preset = preset]
             improved == correction_meta.improved
             final == [requested EXCEPT
                          !.corrected_params = Some(corrected_params),
                          !.correction_applied = Some(improved),
                          !.auto_correction = Some(correction_meta),
                          !.params = IF improved THEN corrected_params
                                     ELSE Get(requested.original_params)]
         IN IF improved
            THEN PrepareDone(final,
                             Get(prepare_bosses_for_geometry2d(bossMask, corrected_params,
                                     manual_bosses, min_boss_area).payload))
            ELSE PrepareDone(final, first_payload)
    ELSE PrepareDone([requested EXCEPT
                         !.correction_applied = Some(FALSE),
                         !.auto_correction =
                             IF auto_correct_roi
                             THEN Some([method |-> "boss_uv_bbox", status |-> "skipped",
                                        reason |-> "not_enough_in_bounds_boss_points_or_invalid_roi"])
                             ELSE None],
                     first_payload)

Prepare(manual_bosses, min_boss_area, auto_correct_roi, auto_correct_config) ==
    /\ UNCHANGED <<workers, segRoi, bossMask, ribMask, pointsFile, matchCsv, matchFile, stateFile,
                   resultFile, lastRun, clock>>
    /\ IF ~IsSome(segRoi)
       THEN PrepareFail("No ROI found in segmentations/index.json. Save ROI in Step 4 first.",
                        roiFile)
       ELSE LET roi_payload == prepare_roi_for_geometry2d(Get(segRoi))
                original_params == roi_payload.params
                first == prepare_bosses_for_geometry2d(bossMask, original_params,
                                                       manual_bosses, min_boss_area)
                correction_options == resolve_auto_correct_options(auto_correct_config)
            IN IF ~first.ok THEN PrepareFail(first.error, Some(roi_payload))
               ELSE ApplyCorrection(
                        [roi_payload EXCEPT !.original_params = Some(original_params),
                                            !.correction_requested = Some(auto_correct_roi)],
                        Get(first.payload),
                        IF auto_correct_roi
                        THEN auto_correct_roi_params(original_params, Get(first.payload),
                                                     correction_options)
                        ELSE None,
                        correction_options.preset, auto_correct_roi,
                        manual_bosses, min_boss_area)

(***************************************************************************)
(* POST /bay-plan/state: _get_state_sync behind its router.                *)
(***************************************************************************)
\* A variant that previews a placeholder boss at the ROI centre when
\* boss_report.json is missing.
PreviewBosses_placeholder(roi_file, boss_file, match_csv) ==
    IF ~IsSome(load_roi_params(roi_file)) THEN << >>
    ELSE UsedBosses(IF IsSome(boss_file) THEN load_boss_rows(boss_file, match_csv)
                    ELSE <<[id |-> 1, uv |-> <<G \div 2, G \div 2>>, source |-> "raw"]>>,
                    Get(load_roi_params(roi_file)))

PreviewBosses(roi_file, boss_file, match_csv) ==
    IF ~IsSome(load_roi_params(roi_file)) \/ ~IsSome(boss_file) THEN << >>
    ELSE LET roi == Get(load_roi_params(roi_file))
             boss_rows == load_boss_rows(boss_file, match_csv)
         IN UsedBosses(boss_rows, roi)

\* A variant that reports the default fallbackApplied, as a summary read back
\* from state.json (which does not store it) would.
LastRunSummary_nofallback(result_file) ==
    IF ~IsSome(result_file) THEN None
    ELSE Some([ranAt |-> Get(result_file).ranAt,
               nodeCount |-> Get(result_file).nodeCount,
               edgeCount |-> Get(result_file).edgeCount,
               enabledConstraintFamilies |-> Get(result_file).enabledConstraintFamilies,
               fallbackApplied |-> FALSE])

LastRunSummary(result_file) ==
    IF ~IsSome(result_file) THEN None
    ELSE Some([ranAt |-> Get(result_file).ranAt,
               nodeCount |-> Get(result_file).nodeCount,
               edgeCount |-> Get(result_file).edgeCount,
               enabledConstraintFamilies |-> Get(result_file).enabledConstraintFamilies,
               fallbackApplied |-> Get(result_file).fallbackApplied])

_get_state_sync(params, roi_file, boss_file, match_csv, result_file) ==
    [params |-> params,
     defaults |-> DEFAULT_RECONSTRUCT_PARAMS,
     lastRunSummary |-> LastRunSummary(result_file),
     previewBosses |-> PreviewBosses(roi_file, boss_file, match_csv),
     statePath |-> "bay_plan_reconstruction/state.json",
     resultPath |-> IF IsSome(result_file)
                    THEN Some("bay_plan_reconstruction/result.json") ELSE None]

GetState ==
    /\ clock < MaxClock
    /\ LET params == resolve_params(stateFile, DEFAULT_RECONSTRUCT_PARAMS)
       IN /\ stateFile' = write_state(params, LastRunSummary(resultFile), clock)
          /\ Reply(Response("get_state", TRUE, "",
                            Some(_get_state_sync(params, roiFile, bossFile, matchCsv,
                                                 resultFile))))
    /\ clock' = clock + 1
    /\ UNCHANGED <<workers, segRoi, bossMask, ribMask, roiFile, bossFile, pointsFile, matchCsv,
                   matchFile, resultFile, lastRun>>

(***************************************************************************)
(* POST /bay-plan/run: _run_reconstruction_sync behind its router.  A run  *)
(* that raises writes nothing; a run that completes writes result.json and *)
(* then state.json.                                                        *)
(***************************************************************************)
\* A variant that rewrites state.json before the run raises.
RunFail_touch(error) ==
    /\ Reply(Response("run", FALSE, error, None))
    /\ stateFile' = write_state(resolve_params(stateFile, DEFAULT_RECONSTRUCT_PARAMS),
                                None, clock)
    /\ UNCHANGED <<resultFile, lastRun, clock>>

RunFail(error) ==
    /\ Reply(Response("run", FALSE, error, None))
    /\ UNCHANGED <<stateFile, resultFile, lastRun, clock>>

RunDone(params, payload) ==
    /\ clock < MaxClock
    /\ resultFile' = Some(payload)
    /\ stateFile' = write_state(params, Some(payload), clock + 1)
    /\ lastRun' = Some(payload)
    /\ clock' = clock + 2
    /\ Reply(Response("run", TRUE, "", Some(payload)))

RunReconstruction ==
    /\ UNCHANGED <<workers, segRoi, bossMask, ribMask, roiFile, bossFile, pointsFile, matchCsv,
                   matchFile>>
    /\ \E params \in {resolve_params(stateFile, DEFAULT_RECONSTRUCT_PARAMS)},
          roi \in {load_roi_params(roiFile)} :
          IF ~IsSome(roi) THEN RunFail("ROI not found. Run Step 4.1 first.")
          ELSE IF ~IsSome(bossFile)
          THEN RunFail("Boss report not found. Run Step 4.1 first.")
          ELSE \E boss_rows \in {load_boss_rows(bossFile, matchCsv)} :
               IF boss_rows = << >>
               THEN RunFail("No bosses available for reconstruction.")
               ELSE \E nodes \in {collect_nodes(Get(roi), boss_rows,
                                                params.includeCornerAnchors,
                                                params.includeHalfAnchors)} :
                    \E stage \in {ConstraintStage(params, nodes, ribMask)} :
                    \E tri \in (IF Len(nodes) < 2
                               THEN {[ok |-> TRUE, steiner |-> << >>, tris |-> {}]}
                               ELSE TriangulatorOutcomes(nodes, stage.constraint_edges)) :
                       IF ~tri.ok THEN RunFail("triangulate failed")
                       ELSE RunDone(params, RunPayload(params, Get(roi), boss_rows, ribMask,
                                                       nodes, stage, tri, clock))

(***************************************************************************)
(* POST /cut-typology/run: _run_matching_sync behind its router.  The      *)
(* point list given with the request is persisted before the matching      *)
(* starts; the CSV and the result are written when it has completed.       *)
(***************************************************************************)
MatchFail(error, points_file) ==
    /\ Reply(Response("run_matching", FALSE, error, None))
    /\ pointsFile' = points_file
    /\ UNCHANGED <<matchCsv, matchFile>>

MatchDone(points_file, out) ==
    /\ Reply(Response("run_matching", TRUE, "", Some(out.payload)))
    /\ pointsFile' = points_file
    /\ matchCsv' = Some(out.csv)
    /\ matchFile' = Some(out.payload)

\* Lines 200-204: the point rows of the run and node_points.json after
\* this step.
MatchingPoints(points, points_file, boss_file) ==
    IF IsSome(points)
    THEN Bind(_normalise_points(Get(points)), LAMBDA given :
            IF ~given.ok
            THEN [ok |-> FALSE, error |-> given.error, rows |-> << >>, file |-> points_file]
            ELSE [ok |-> TRUE, error |-> "", rows |-> given.points,
                  file |-> Some(given.points)])
    ELSE IF IsSome(points_file)
    THEN [ok |-> TRUE, error |-> "", rows |-> _normalise_points(Get(points_file)).points,
          file |-> points_file]
    ELSE IF ~IsSome(boss_file)
    THEN [ok |-> FALSE, error |-> "Boss report not found. Run ROI analysis first.",
          rows |-> << >>, file |-> points_file]
    ELSE [ok |-> TRUE, error |-> "", rows |-> _load_base_points(boss_file),
          file |-> Some(_load_base_points(boss_file))]

\* RunMatching with node_points.json written before the parameters are resolved.
RunMatching_persistfirst(params, points) ==
    /\ UNCHANGED <<workers, segRoi, bossMask, ribMask, roiFile, bossFile, stateFile, resultFile,
                   lastRun, clock>>
    /\ \E roi \in {_load_roi_params(roiFile)}, resolved_params \in {_resolve_params(params)},
          point_rows \in {MatchingPoints(points, pointsFile, bossFile)} :
          IF ~IsSome(roi) THEN MatchFail("ROI not found. Run ROI analysis first.", pointsFile)
          ELSE IF ~point_rows.ok THEN MatchFail(point_rows.error, point_rows.file)
          ELSE IF ~IsSome(resolved_params)
          THEN MatchFail("At least one cut-typology family must be enabled", point_rows.file)
          ELSE IF point_rows.rows = << >>
          THEN MatchFail("No node points available for cut-typology matching",
                         point_rows.file)
          ELSE IF Get(roi).w = 0 \/ Get(roi).h = 0
          THEN MatchFail("ROI width/height cannot be zero when converting coordinates",
                         point_rows.file)
          ELSE MatchDone(point_rows.file,
                         MatchingPayload(Get(roi), Get(resolved_params),
                                         _attach_uv(point_rows.rows, Get(roi))))

RunMatching(params, points) ==
    /\ UNCHANGED <<workers, segRoi, bossMask, ribMask, roiFile, bossFile, stateFile, resultFile,
                   lastRun, clock>>
    /\ \E roi \in {_load_roi_params(roiFile)}, resolved_params \in {_resolve_params(params)} :
          IF ~IsSome(roi) THEN MatchFail("ROI not found. Run ROI analysis first.", pointsFile)
          ELSE IF ~IsSome(resolved_params)
          THEN MatchFail("At least one cut-typology family must be enabled", pointsFile)
          ELSE \E point_rows \in {MatchingPoints(points, pointsFile, bossFile)} :
               IF ~point_rows.ok THEN MatchFail(point_rows.error, point_rows.file)
               ELSE IF point_rows.rows = << >>
               THEN MatchFail("No node points available for cut-typology matching",
                              point_rows.file)
               ELSE IF Get(roi).w = 0 \/ Get(roi).h = 0
               THEN MatchFail("ROI width/height cannot be zero when converting coordinates",
                              point_rows.file)
               ELSE MatchDone(point_rows.file,
                              MatchingPayload(Get(roi), Get(resolved_params),
                                              _attach_uv(point_rows.rows, Get(roi))))

(***************************************************************************)
(* Projects and requests explored.  The ROI is the 200 x 200 pixel square  *)
(* centred at (100, 100), so pixel (2a, 2b) is the unit point (a, b)/G.    *)
(***************************************************************************)
SquareRoi == Some([x |-> 100, y |-> 100, width |-> 200, height |-> 200, rotation |-> 0])

Component(x, y, area) == [x |-> x, y |-> y, area |-> area]

BossSingle == Some(<<Component(100, 100, 50)>>)
BossNone == Some(<< >>)
BossOnTop == Some(<<Component(100, 0, 50)>>)
BossCornerX == Some(<<Component(4, 0, 40), Component(4, 8, 40),
                      Component(0, 4, 40), Component(8, 4, 40)>>)
BossPair == Some(<<Component(104, 104, 60), Component(104, 50, 60)>>)
BossRow == Some(<<Component(60, 100, 60), Component(140, 100, 60)>>)
BossOutside == Some(<<Component(240, 100, 30), Component(100, 100, 30)>>)
BossTriple == Some(<<Component(50, 50, 80), Component(150, 150, 80),
                     Component(50, 150, 80), Component(10, 10, 4)>>)

\* Two bosses on the right ROI border and two facing each other across it.
BossGate == Some(<<Component(200, 0, 50), Component(200, 200, 50),
                   Component(180, 100, 50), Component(220, 100, 50)>>)

Stroke(a, b, c, d) == << <<a, b>>, <<c, d>> >>

RibsDiagonal == Some({Stroke(0, 0, G, G), Stroke(G, 0, 0, G)})
RibsCross == Some({Stroke(G \div 2, 0, G \div 2, G), Stroke(0, G \div 2, G, G \div 2)})
RibsBlank == Some({})
RibsBox == Some({Stroke(0, 0, G, 0), Stroke(G, 0, G, G), Stroke(G, G, 0, G),
                 Stroke(0, G, 0, 0), Stroke(0, 0, G, G)})

StoredState(params) == Some([params |-> params, updatedAt |-> 0, lastRun |-> None])

StateNoCorners == StoredState([includeCornerAnchors |-> FALSE])
StateWideTol == StoredState([crossTolerance |-> 50, candidateKnn |-> 32])
StateWideTolNoCorners ==
    StoredState([crossTolerance |-> 50, candidateKnn |-> 32, includeCornerAnchors |-> FALSE])
StateShortReach ==
    StoredState([includeCornerAnchors |-> FALSE, candidateMaxDistanceUv |-> 30])
StateHalf == StoredState([includeHalfAnchors |-> TRUE, candidateKnn |-> 32])
StateOutOfRange ==
    StoredState([crossTolerance |-> 900, corridorWidthPx |-> 1, familyIncludeThreshold |-> 150,
                 candidateKnn |-> 40, edgeKeepScore |-> -5, constraintMinScore |-> 250,
                 enforcePlanarity |-> FALSE])

Project(roi, bosses, ribs, state) ==
    [roi |-> roi, bosses |-> bosses, ribs |-> ribs, state |-> state]

Projects ==
    {Project(None, BossSingle, None, None),
     Project(SquareRoi, None, None, None),
     Project(SquareRoi, BossNone, None, None),
     Project(SquareRoi, BossSingle, None, None),
     Project(SquareRoi, BossSingle, None, StateNoCorners),
     Project(SquareRoi, BossSingle, RibsDiagonal, StateNoCorners),
     Project(SquareRoi, BossSingle, None, StateHalf),
     Project(SquareRoi, BossOnTop, None, None),
     Project(SquareRoi, BossCornerX, RibsDiagonal, StateWideTolNoCorners),
     Project(SquareRoi, BossCornerX, RibsBlank, StateWideTol),
     Project(SquareRoi, BossPair, RibsCross, None),
     Project(SquareRoi, BossPair, None, None),
     Project(SquareRoi, BossRow, None, StateNoCorners),
     Project(SquareRoi, BossOutside, None, None),
     Project(SquareRoi, BossOutside, RibsDiagonal, None),
     Project(SquareRoi, BossTriple, RibsDiagonal, None),
     Project(SquareRoi, BossTriple, RibsBox, StateOutOfRange),
     Project(SquareRoi, BossTriple, None, StateOutOfRange),
     Project(SquareRoi, BossGate, RibsBlank, StateShortReach)}

ManualBosses == {None, Some(<< <<150, 100>>, <<100, 100>> >>)}

MinBossAreas == {10}

SearchWide ==
    [preset |-> "fast", tolerance |-> 5, xy_step |-> 16, xy_range |-> 4, n_range |-> <<2, 6>>,
     include_scale |-> TRUE, scale_step |-> 50, scale_range |-> 5,
     include_rotation |-> FALSE, rotation_step |-> 20, rotation_range |-> 0,
     regularisation_weight |-> 0, improvement_margin |-> 100]

SearchTight ==
    [preset |-> "custom", tolerance |-> 1, xy_step |-> 8, xy_range |-> 2, n_range |-> <<1, 3>>,
     include_scale |-> FALSE, scale_step |-> 90, scale_range |-> 0,
     include_rotation |-> TRUE, rotation_step |-> 20, rotation_range |-> 0,
     regularisation_weight |-> 5, improvement_margin |-> 2]

\* A heavily regularised search with a wide tolerance.
SearchRegularised ==
    [preset |-> "precise", tolerance |-> 5, xy_step |-> 8, xy_range |-> 4, n_range |-> <<2, 6>>,
     include_scale |-> FALSE, scale_step |-> 50, scale_range |-> 0,
     include_rotation |-> FALSE, rotation_step |-> 20, rotation_range |-> 0,
     regularisation_weight |-> 100, improvement_margin |-> 0]

\* Requests with a zero or negative step or range on an axis.
SearchZeroRotationStep ==
    [SearchWide EXCEPT !.include_rotation = TRUE, !.rotation_step = 0, !.rotation_range = 0]

SearchNegativeRanges ==
    [SearchTight EXCEPT !.include_scale = TRUE, !.scale_step = -10, !.scale_range = -1,
                        !.xy_range = -4]

SearchConfigs ==
    {SearchWide, SearchTight, SearchRegularised, SearchZeroRotationStep, SearchNegativeRanges}

NoResponse == Response("none", TRUE, "", None)

\* run_in_executor(None, ...): the calls in flight on the default executor's
\* worker threads.  A request of the sequential specifications occupies no
\* worker between two steps.
MaxWorkers == 2

\* A worker: the call it runs (op), where it stands (pc), the params the call
\* resolved, its result (the payload of a run, the summary of a get_state),
\* the files it has still to write, and the text of the file it holds open.
Idle ==
    [op |-> "idle", pc |-> "idle", params |-> None, result |-> None, writes |-> << >>,
     opened |-> None]

NoWorkers == [w \in 1..MaxWorkers |-> Idle]

Init ==
    /\ \E p \in Projects :
          /\ segRoi = p.roi
          /\ bossMask = p.bosses
          /\ ribMask = p.ribs
          /\ stateFile = p.state
    /\ roiFile = None
    /\ bossFile = None
    /\ pointsFile = None
    /\ matchCsv = None
    /\ matchFile = None
    /\ resultFile = None
    /\ resp = NoResponse
    /\ prev = NoResponse
    /\ lastRun = None
    /\ clock = 0
    /\ workers = NoWorkers

\* The orchestrator over projects prepared without ROI auto-correction.
Next ==
    \/ \E manual_bosses \in ManualBosses, min_boss_area \in MinBossAreas,
          auto_correct_config \in SearchConfigs :
          Prepare(manual_bosses, min_boss_area, FALSE, auto_correct_config)
    \/ GetState
    \/ RunReconstruction

Spec == Init /\ [][Next]_vars

\* Matching requests: the grids n = 2, 3, 4 and both circlecuts with a
\* tolerance of 0.02, every family disabled, and the grids n = 4, 5 crossed
\* with the inner circlecut.
MatchDefault == [DEFAULT_TEMPLATE_PARAMS EXCEPT !.starcutMax = 4, !.tolerance = 2]

MatchNoFamily ==
    [DEFAULT_TEMPLATE_PARAMS EXCEPT !.includeStarcut = FALSE, !.includeInner = FALSE,
                                    !.includeOuter = FALSE]

MatchCross ==
    [DEFAULT_TEMPLATE_PARAMS EXCEPT !.starcutMin = 4, !.starcutMax = 5,
                                    !.includeOuter = FALSE, !.tolerance = 5]

MatchParams == {MatchDefault, MatchNoFamily, MatchCross}

PointRow(id, x, y) == [id |-> id, x |-> x, y |-> y, source |-> "manual"]

MatchPoints == {None, Some(<< >>), Some(<<PointRow(2, 40, 20), PointRow(1, 100, 100)>>)}

BossTwin == Some(<<Component(96, 100, 50), Component(104, 100, 50)>>)
BossOffGrid == Some(<<Component(40, 20, 50), Component(150, 50, 50)>>)

\* Stages 4.1, 4.3 and 4.4 on projects without rib masks.
InitMatch ==
    /\ segRoi = SquareRoi
    /\ bossMask \in {BossTwin, BossOffGrid}
    /\ ribMask = None
    /\ stateFile = None
    /\ roiFile = None
    /\ bossFile = None
    /\ pointsFile = None
    /\ matchCsv = None
    /\ matchFile = None
    /\ resultFile = None
    /\ resp = NoResponse
    /\ prev = NoResponse
    /\ lastRun = None
    /\ clock = 0
    /\ workers = NoWorkers

NextMatch ==
    \/ \E min_boss_area \in MinBossAreas, auto_correct_config \in {SearchWide} :
          Prepare(None, min_boss_area, FALSE, auto_correct_config)
    \/ \E params \in MatchParams, points \in MatchPoints : RunMatching(params, points)
    \/ RunReconstruction

SpecMatch == InitMatch /\ [][NextMatch]_vars

\* Stage 4.1 alone, with and without ROI auto-correction.
InitRoi ==
    /\ Init
    /\ segRoi # None
    /\ bossMask \in {BossSingle, BossPair, BossOutside}
    /\ ribMask = None
    /\ stateFile = None

NextRoi ==
    \E manual_bosses \in ManualBosses, min_boss_area \in MinBossAreas,
       auto_correct_roi \in BOOLEAN, auto_correct_config \in SearchConfigs :
       Prepare(manual_bosses, min_boss_area, auto_correct_roi, auto_correct_config)

SpecRoi == InitRoi /\ [][NextRoi]_vars

(***************************************************************************)
(* Properties.  RunResult is the payload of a successful run held in the   *)
(* latest response; ConstraintEdgesOf and BossIndicesOf read it.           *)
(***************************************************************************)
RunSucceeded == resp.op = "run" /\ resp.success

RunResult == Get(resp.data)

ConstraintEdgesOf(payload) ==
    {<<payload.edges[k].a, payload.edges[k].b>> :
        k \in {j \in 1..Len(payload.edges) : payload.edges[j].isConstraint}}

PixelOf(payload, i) == <<payload.nodes[i + 1].x, payload.nodes[i + 1].y>>

\* C1: with enforcePlanarity on, the constraint edges the selector returns
\* (protected boundary edges included) contain no two edges that share no
\* endpoint and properly cross when drawn in pixel space.
C1_SelectedEdgesPlanar ==
    (RunSucceeded /\ ribMask # None /\ RunResult.params.enforcePlanarity) =>
        \A e, f \in ConstraintEdgesOf(RunResult) :
            ({e[1], e[2]} \cap {f[1], f[2]} = {}) =>
                ~(/\ _orientation(PixelOf(RunResult, e[1]), PixelOf(RunResult, e[2]),
                                  PixelOf(RunResult, f[1]))
                       * _orientation(PixelOf(RunResult, e[1]), PixelOf(RunResult, e[2]),
                                      PixelOf(RunResult, f[2])) < 0
                  /\ _orientation(PixelOf(RunResult, f[1]), PixelOf(RunResult, f[2]),
                                  PixelOf(RunResult, e[1]))
                       * _orientation(PixelOf(RunResult, f[1]), PixelOf(RunResult, f[2]),
                                      PixelOf(RunResult, e[2])) < 0)

BossIndicesOf(payload) ==
    {k - 1 : k \in {j \in 1..Len(payload.nodes) : payload.nodes[j].source = "boss"}}

\* C2: in the final edge list of every successful run every boss node has
\* at least one incident edge.
C2_EveryBossHasAnEdge ==
    RunSucceeded =>
        \A b \in BossIndicesOf(RunResult) :
            \E k \in 1..Len(RunResult.edges) :
                b \in {RunResult.edges[k].a, RunResult.edges[k].b}

ClearOfBoundary(payload) ==
    \A b \in BossIndicesOf(payload) :
        \A d \in {payload.nodes[b + 1].u, payload.nodes[b + 1].u - G,
                  payload.nodes[b + 1].v, payload.nodes[b + 1].v - G} :
            (1000 \div G) * Abs(d) > payload.params.crossTolerance

C4_ConstraintEdgesKept ==
    RunSucceeded =>
        Cardinality(ConstraintEdgesOf(RunResult)) = RunResult.constraintEdgeCount

C4_Witness ==
    /\ RunSucceeded /\ ribMask # None
    /\ Get(resultFile).edgeKeepThreshold > 0
    /\ RunResult.constraintEdgeCount >= 4
    /\ \E k \in 1..Len(RunResult.nodes) : RunResult.nodes[k].source = "steiner"
    /\ RunResult.edgeCount > RunResult.constraintEdgeCount

\* The orchestrator state of a project, read off its files: result.json
\* exists; else roi.json is missing; else boss_report.json is missing.
OrchState ==
    IF IsSome(resultFile) THEN "Reconstructed"
    ELSE IF ~IsSome(roiFile) THEN "NoRoi"
    ELSE IF ~IsSome(bossFile) THEN "HasRoi"
    ELSE "HasBosses"

Rank(state) ==
    CASE state = "NoRoi" -> 0
      [] state = "HasRoi" -> 1
      [] state = "HasBosses" -> 2
      [] state = "Reconstructed" -> 3

\* C5: no step moves the project backwards along NoRoi, HasRoi, HasBosses,
\* Reconstructed; result.json first appears only in a run that succeeds from
\* HasBosses with at least one boss; a run in NoRoi or HasRoi fails with
\* the error of the missing artifact, creates no result.json and leaves the
\* state as it was.
C5_StateMachine ==
    [][/\ Rank(OrchState') >= Rank(OrchState)
       /\ (OrchState # "Reconstructed" /\ OrchState' = "Reconstructed") =>
              /\ OrchState = "HasBosses"
              /\ resp'.op = "run" /\ resp'.success
              /\ Get(resp'.data).bossCount >= 1
              /\ resultFile' = resp'.data
       /\ (resp'.op = "run" /\ OrchState \in {"NoRoi", "HasRoi"}) =>
              /\ ~resp'.success
              /\ resp'.error = (IF OrchState = "NoRoi"
                                THEN "ROI not found. Run Step 4.1 first."
                                ELSE "Boss report not found. Run Step 4.1 first.")
              /\ resultFile' = None
              /\ OrchState' = OrchState]_vars

C5_Witness ==
    /\ OrchState = "HasRoi"
    /\ resp.op = "run" /\ ~resp.success
    /\ resp.error = "Boss report not found. Run Step 4.1 first."

\* C6: a run on a project whose resolved boss list is empty fails with the
\* "no bosses" error as a structured failure and writes neither
\* result.json nor state.json.
C6_NoBossesFailure ==
    [][(/\ resp'.op = "run"
        /\ IsSome(roiFile) /\ IsSome(bossFile)
        /\ load_boss_rows(bossFile, matchCsv) = << >>) =>
           /\ ~resp'.success
           /\ resp'.error = "No bosses available for reconstruction."
           /\ resp'.data = None
           /\ resultFile' = resultFile
           /\ stateFile' = stateFile]_vars

C6_Witness ==
    /\ resp.op = "run" /\ ~resp.success
    /\ resp.error = "No bosses available for reconstruction."
    /\ IsSome(bossFile) /\ Get(bossFile).boss_count = 0
    /\ resultFile = None /\ stateFile = None

\* C7: get_state succeeds in every orchestrator state, with previewBosses
\* empty when roi.json or boss_report.json is missing and lastRunSummary
\* null before any run, and leaves result.json, the ROI, the boss data and
\* so the orchestrator state unchanged.
C7_GetStateSafe ==
    [][resp'.op = "get_state" =>
           /\ resp'.success /\ IsSome(resp'.data)
           /\ (~IsSome(roiFile) \/ ~IsSome(bossFile)) =>
                  Get(resp'.data).previewBosses = << >>
           /\ ~IsSome(lastRun) => Get(resp'.data).lastRunSummary = None
           /\ resultFile' = resultFile /\ roiFile' = roiFile /\ bossFile' = bossFile
           /\ segRoi' = segRoi /\ bossMask' = bossMask
           /\ OrchState' = OrchState]_vars

C7_Witness ==
    /\ resp.op = "get_state" /\ resp.success
    /\ OrchState = "HasRoi"
    /\ Get(resp.data).previewBosses = << >>
    /\ Get(resp.data).lastRunSummary = None
    /\ IsSome(stateFile) /\ Get(stateFile).updatedAt > 0

\* C8: two get_state calls in a row return the same output.
C8_GetStateIdempotent ==
    (resp.op = "get_state" /\ prev.op = "get_state") => resp.data = prev.data

C8_Witness ==
    /\ resp.op = "get_state" /\ prev.op = "get_state"
    /\ Get(resp.data).params.crossTolerance = 200
    /\ Get(resp.data).params.edgeKeepScore = 0
    /\ Get(resp.data).previewBosses # << >>
    /\ Get(stateFile).updatedAt = 1

\* C9: after a successful run, every get_state returns a lastRunSummary
\* whose ranAt, nodeCount, edgeCount, enabledConstraintFamilies and
\* fallbackApplied are those of the payload the latest run returned.
C9_SummaryMatchesRun ==
    (resp.op = "get_state" /\ IsSome(lastRun)) =>
        Get(resp.data).lastRunSummary =
            Some([ranAt |-> Get(lastRun).ranAt,
                  nodeCount |-> Get(lastRun).nodeCount,
                  edgeCount |-> Get(lastRun).edgeCount,
                  enabledConstraintFamilies |-> Get(lastRun).enabledConstraintFamilies,
                  fallbackApplied |-> Get(lastRun).fallbackApplied])

C9_Witness ==
    /\ resp.op = "get_state" /\ prev.op = "run" /\ prev.success
    /\ Get(prev.data) = Get(lastRun)
    /\ Get(lastRun).fallbackApplied
    /\ Get(lastRun).enabledConstraintFamilies # << >>
    /\ Get(Get(resp.data).lastRunSummary).edgeCount > 0

\* The prepare response carries the report of a grid search that ran.
SearchRan ==
    /\ resp.op = "prepare" /\ resp.success
    /\ IsSome(Get(resp.data).roi.auto_correction)
    /\ Get(Get(resp.data).roi.auto_correction).method = "step03_score_search"

SearchReport == Get(Get(resp.data).roi.auto_correction)

\* C10: when the ROI search reports improved = false, the ROI it returns
\* is the input ROI with the identity delta, and prepare persists and
\* applies that original ROI: roi.json and the boss report carry it.
C10_NotImprovedKeepsRoi ==
    (SearchRan /\ ~SearchReport.improved) =>
        /\ Get(resp.data).roi.corrected_params = Some(_build_roi_params(Get(segRoi)))
        /\ SearchReport.delta = IdentityDelta
        /\ SearchReport.best_score = SearchReport.base_score
        /\ Get(resp.data).roi.params = _build_roi_params(Get(segRoi))
        /\ Get(resp.data).roi.correction_applied = Some(FALSE)
        /\ roiFile = Some(Get(resp.data).roi)
        /\ IsSome(bossFile) /\ Get(bossFile).roi = _build_roi_params(Get(segRoi))

C10_Witness ==
    /\ SearchRan /\ ~SearchReport.improved
    /\ Get(resp.data).roi.params = _build_roi_params(Get(segRoi))
    /\ Get(resp.data).bossReport.boss_count = 2
    /\ SearchReport.base_score < ScoreUnit

\* The search of a correction request over the prepared project: the loop's
\* outcome for the original ROI and the bosses extracted under it.
LoopOutcome(manual_bosses, cfg) ==
    SearchBest(Get(Get(roiFile).original_params),
               _extract_boss_xy(Get(prepare_bosses_for_geometry2d(
                                        bossMask, Get(Get(roiFile).original_params),
                                        manual_bosses, 10).payload)),
               resolve_auto_correct_options(cfg))

\* C11: the score of the ROI that auto-correction returns is never below the
\* score of the original ROI: the reported best_score is at least base_score
\* and score_gain is non-negative, and already the candidate the loop ends
\* with, chosen by its regularised objective, scores at least the base.
C11_ScoreNeverDrops ==
    SearchRan =>
        /\ SearchReport.best_score >= SearchReport.base_score
        /\ SearchReport.score_gain >= 0
        /\ SearchReport.score_gain = SearchReport.best_score - SearchReport.base_score
        /\ \A manual_bosses \in ManualBosses, cfg \in SearchConfigs :
              LoopOutcome(manual_bosses, cfg).best.score
                  >= LoopOutcome(manual_bosses, cfg).base_score

C11_Witness ==
    /\ SearchRan
    /\ SearchReport.improved
    /\ SearchReport.score_gain > 0
    /\ SearchReport.delta # IdentityDelta
    /\ \E manual_bosses \in ManualBosses, cfg \in SearchConfigs :
          /\ resolve_auto_correct_options(cfg).regularisation_weight > 0
          /\ LoopOutcome(manual_bosses, cfg).best.obj
                 < LoopOutcome(manual_bosses, cfg).best.score

\* A request config with a zero or negative step or range on a search axis.
NonPositiveAxis(cfg) ==
    \/ cfg.xy_step <= 0 \/ cfg.xy_range <= 0
    \/ cfg.scale_step <= 0 \/ cfg.scale_range <= 0
    \/ cfg.rotation_step <= 0 \/ cfg.rotation_range <= 0

\* C12: a prepare request that asks for ROI auto-correction with a
\* non-positive step or range on a search axis is answered with a structured
\* failure (success false and a message); the search is not run.
C12_InvalidSearchRejected ==
    [][\A manual_bosses \in ManualBosses, min_boss_area \in MinBossAreas,
          cfg \in {c \in SearchConfigs : NonPositiveAxis(c)} :
          Prepare(manual_bosses, min_boss_area, TRUE, cfg)
              => (~resp'.success /\ resp'.error # "")]_vars


NoFamilyError == "At least one cut-typology family must be enabled"

\* C13: run_matching with the starcut, inner-circlecut and outer-circlecut
\* families all disabled answers success = false and leaves node_points.json,
\* the matching result and the match CSV as they were, whatever points the
\* request carries; the error is the no-family error of _resolve_params
\* whenever roi.json exists (a project without roi.json is refused one line
\* earlier, as a missing upstream artifact).
C13_NoFamilyFailsBeforePersist ==
    [][\A points \in MatchPoints :
          RunMatching(MatchNoFamily, points) =>
             /\ resp'.op = "run_matching"
             /\ ~resp'.success
             /\ resp'.data = None
             /\ resp'.error = (IF IsSome(roiFile) THEN NoFamilyError
                               ELSE "ROI not found. Run ROI analysis first.")
             /\ pointsFile' = pointsFile
             /\ matchCsv' = matchCsv
             /\ matchFile' = matchFile]_vars

\* The no-family failure answered on a project that already holds the points,
\* the result and the CSV of an earlier successful matching run.
C13_Witness ==
    /\ resp.op = "run_matching"
    /\ ~resp.success
    /\ resp.error = NoFamilyError
    /\ prev.op = "run_matching"
    /\ prev.success
    /\ IsSome(pointsFile)
    /\ IsSome(matchCsv)
    /\ IsSome(matchFile)
    /\ Get(prev.data) = Get(matchFile)

\* The nodes of the run just answered: state.json, roi.json, the boss report
\* and the match CSV are as the run read them.
RunNodes ==
    collect_nodes(Get(load_roi_params(roiFile)), load_boss_rows(bossFile, matchCsv),
                  RunResult.params.includeCornerAnchors, RunResult.params.includeHalfAnchors)

\* Lines 171-213 of _run_reconstruction_sync: what the run hands to
\* select_constraint_edges.
SelectionInputs(params, nodes, rib_union_mask) ==
    Bind(build_segment_edges(nodes, BoundarySegments, params.crossTolerance),
         LAMBDA boundary_edges :
    Bind(score_constraint_families(rib_union_mask), LAMBDA family_scores :
    Bind(gate_constraint_families(family_scores, params.familyIncludeThreshold,
                                  params.familyOptionalThreshold),
         LAMBDA fallback_family_selection :
       [protected_edges |-> boundary_edges,
        family_selection |-> fallback_family_selection,
        edge_scores |->
            score_candidate_edges(
                rib_union_mask, nodes,
                build_segment_edges(nodes, segments_for_families(fallback_family_selection),
                                    params.crossTolerance)
                    \cup build_knn_candidate_edges(nodes, params.candidateKnn,
                                                   params.candidateMaxDistanceUv)
                    \cup boundary_edges,
                Some(family_scores), params.familyPriorWeight)])))

\* Lines 214-222: the selection made from these inputs.
Selected(params, nodes, inputs) ==
    select_constraint_edges(nodes, inputs.edge_scores, params.constraintMinScore,
                            inputs.protected_edges, params.constraintPerBossMinScore,
                            Max2(4, Len(nodes) \div 2), params.enforcePlanarity)

RunWithRibs == RunSucceeded /\ ribMask # None

\* C14: whenever the score table of a run holds a candidate edge that is not
\* a protected boundary edge, the selection holds an edge that is not
\* protected.
C14_SelectionBeyondBoundary ==
    RunWithRibs =>
        \A inputs \in {SelectionInputs(RunResult.params, RunNodes, Get(ribMask))} :
            (DOMAIN inputs.edge_scores \ inputs.protected_edges # {}) =>
                Selected(RunResult.params, RunNodes, inputs) \ inputs.protected_edges # {}

\* C15: in the selection of a run, every boss node with an incident candidate
\* edge scoring at least perBossMinScore has an incident selected edge.
C15_EveryBossCovered ==
    RunWithRibs =>
        \A inputs \in {SelectionInputs(RunResult.params, RunNodes, Get(ribMask))} :
            \A idx \in {i \in Indices(RunNodes) : NodeAt(RunNodes, i).source = "boss"} :
                (\E e \in DOMAIN inputs.edge_scores :
                    /\ idx \in {e[1], e[2]}
                    /\ inputs.edge_scores[e]
                          >= 100 * RunResult.params.constraintPerBossMinScore) =>
                    \E e \in Selected(RunResult.params, RunNodes, inputs) :
                        idx \in {e[1], e[2]}

\* C16: a successful run on a project with a rib mask whose family gating
\* enables no family reports fallbackApplied = true.
C16_EmptyGatingIsFallback ==
    (/\ RunWithRibs
     /\ gate_constraint_families(score_constraint_families(Get(ribMask)),
                                 RunResult.params.familyIncludeThreshold,
                                 RunResult.params.familyOptionalThreshold) = << >>) =>
        RunResult.fallbackApplied

\* C17: the candidate templates of the search are standard(n) for every n of
\* the resolved n_range, both bounds included (2..6 for the range 2-6 of the
\* presets), plus the inner circlecut template.
C17_CandidatesCoverRange ==
    SearchRan =>
        \A cfg \in SearchConfigs :
            \A n_range \in {resolve_auto_correct_options(cfg).n_range} :
                Range(CandidateRatios(n_range))
                    = {<<StandardRatios(n), StandardRatios(n)>> : n \in n_range[1]..n_range[2]}
                      \cup {<<InnerRatios, InnerRatios>>}

\* The axis values of the built-in presets, steps and ranges of an axis in one
\* unit: half pixels for xy, 0.0005 for scale, 0.05 degrees for rotation.
AUTO_CORRECT_PRESETS ==
    [preset \in {"fast", "balanced", "precise"} |->
        CASE preset = "fast" ->
                [xy_step |-> 8, xy_range |-> 24, n_range |-> <<2, 6>>,
                 include_scale |-> TRUE, scale_step |-> 20, scale_range |-> 20,
                 include_rotation |-> TRUE, rotation_step |-> 10, rotation_range |-> 15]
          [] preset = "balanced" ->
                [xy_step |-> 4, xy_range |-> 32, n_range |-> <<2, 6>>,
                 include_scale |-> TRUE, scale_step |-> 10, scale_range |-> 30,
                 include_rotation |-> TRUE, rotation_step |-> 5, rotation_range |-> 20]
          [] preset = "precise" ->
                [xy_step |-> 2, xy_range |-> 40, n_range |-> <<2, 6>>,
                 include_scale |-> TRUE, scale_step |-> 5, scale_range |-> 40,
                 include_rotation |-> TRUE, rotation_step |-> 2, rotation_range |-> 30]]

\* Lines 216-251: the number of candidate ROIs the nested loops score.
PresetEvaluations(p) ==
    SampleCount(p.xy_range, p.xy_step) * SampleCount(p.xy_range, p.xy_step)
    * (IF p.include_scale
       THEN SampleCount(p.scale_range, p.scale_step) * SampleCount(p.scale_range, p.scale_step)
       ELSE 1)
    * (IF p.include_rotation THEN SampleCount(p.rotation_range, p.rotation_step) ELSE 1)

\* C18: for each built-in preset the search scores fewer than 10,000
\* candidate ROIs.
C18_PresetsStaySmall ==
    SearchRan =>
        \A preset \in DOMAIN AUTO_CORRECT_PRESETS :
            PresetEvaluations(AUTO_CORRECT_PRESETS[preset]) < 10000

MatchingSucceeded == resp.op = "run_matching" /\ resp.success

\* The stated order of simplicity: family (starcut, circlecut inner,
\* circlecut outer, cross), then n, then the combined error.
StatedSimplicity(variants, match) ==
    <<IF match.isCrossTemplate \/ match.templateType = "cross" THEN 3
      ELSE IF match.templateType = "starcut" THEN 0
      ELSE IF match.variantLabel = <<"circlecut_", "inner">> THEN 1
      ELSE 2,
      IF \E k \in 1..Len(variants) :
            variants[k].variantLabel = match.variantLabel /\ IsSome(variants[k].n)
      THEN Get(variants[CHOOSE k \in 1..Len(variants) :
                           variants[k].variantLabel = match.variantLabel].n)
      ELSE 9999,
      match.xError + match.yError>>

\* C20: in the match CSV of a successful matching run, the row of every boss
\* with matches names a match that no other match of that boss precedes in
\* the stated order of simplicity.
C20_SimplestMatchWritten ==
    MatchingSucceeded =>
        \A k \in 1..Len(Get(matchFile).perBoss) :
            \A point \in {Get(matchFile).perBoss[k]} :
                (point.matches # << >>) =>
                    /\ Get(matchCsv)[k].boss_id = point.id
                    /\ \E i \in 1..Len(point.matches) :
                          /\ Get(matchCsv)[k].variant_label
                                = Some(point.matches[i].variantLabel)
                          /\ \A j \in 1..Len(point.matches) :
                                ~LexLess(StatedSimplicity(Get(matchFile).variants,
                                                          point.matches[j]),
                                         StatedSimplicity(Get(matchFile).variants,
                                                          point.matches[i]))

(***************************************************************************)
(* The pure functions of the core, called directly.  A call is recorded in *)
(* resp with its arguments; the project files are not touched.             *)
(*                                                                         *)
(* roi_math.py in exact arithmetic: a coordinate is a reduced fraction     *)
(* <<numerator, denominator>> with a positive denominator.  rotation_deg   *)
(* is a quarter turn or 53, which stands for atan(4/3) = 53.13 degrees,    *)
(* the angle with cos = 3/5 and sin = 4/5.                                 *)
(***************************************************************************)
RECURSIVE Gcd(_, _)
Gcd(a, b) == IF b = 0 THEN Abs(a) ELSE Gcd(b, a % b)

Q(num, den) ==
    IF den > 0 THEN <<num \div Gcd(num, den), den \div Gcd(num, den)>>
    ELSE <<(-num) \div Gcd(num, -den), (-den) \div Gcd(num, -den)>>

QInt(n) == <<n, 1>>
QAdd(a, b) == Q(a[1] * b[2] + b[1] * a[2], a[2] * b[2])
QSub(a, b) == Q(a[1] * b[2] - b[1] * a[2], a[2] * b[2])
QMul(a, b) == Q(a[1] * b[1], a[2] * b[2])
QDiv(a, b) == Q(a[1] * b[2], a[2] * b[1])
QHalf == <<1, 2>>

\* math.cos and math.sin of math.radians(rotation_deg).
CosQ(d) == CASE d = 0 -> QInt(1) [] d = 90 -> QInt(0) [] d = 180 -> QInt(-1)
             [] d = 270 -> QInt(0) [] d = 53 -> <<3, 5>>

SinQ(d) == CASE d = 0 -> QInt(0) [] d = 90 -> QInt(1) [] d = 180 -> QInt(0)
             [] d = 270 -> QInt(-1) [] d = 53 -> <<4, 5>>

\* image_to_unit on a pixel point <<x, y>> of fractions: None when it raises
\* the ValueError of line 16.
imageToUnit(point_xy, roi) ==
    IF roi.w = 0 \/ roi.h = 0 THEN None
    ELSE Bind(QSub(point_xy[1], QInt(roi.cx)), LAMBDA dx :
         Bind(QSub(point_xy[2], QInt(roi.cy)), LAMBDA dy :
            Some(<<QAdd(QDiv(QAdd(QMul(CosQ(roi.rotation_deg), dx),
                                  QMul(SinQ(roi.rotation_deg), dy)), QInt(roi.w)), QHalf),
                   QAdd(QDiv(QSub(QMul(CosQ(roi.rotation_deg), dy),
                                  QMul(SinQ(roi.rotation_deg), dx)), QInt(roi.h)), QHalf)>>)))

\* A variant that turns the local offset the other way round.
unitToImage_counterturn(point_uv, roi) ==
    Bind(QMul(QSub(point_uv[1], QHalf), QInt(roi.w)), LAMBDA x_local :
    Bind(QMul(QSub(point_uv[2], QHalf), QInt(roi.h)), LAMBDA y_local :
       Some(<<QAdd(QAdd(QInt(roi.cx), QMul(CosQ(roi.rotation_deg), x_local)),
                   QMul(SinQ(roi.rotation_deg), y_local)),
              QAdd(QSub(QInt(roi.cy), QMul(SinQ(roi.rotation_deg), x_local)),
                   QMul(CosQ(roi.rotation_deg), y_local))>>)))

\* unit_to_image on a unit point <<u, v>> of fractions; it has no failing
\* branch.
unitToImage(point_uv, roi) ==
    Bind(QMul(QSub(point_uv[1], QHalf), QInt(roi.w)), LAMBDA x_local :
    Bind(QMul(QSub(point_uv[2], QHalf), QInt(roi.h)), LAMBDA y_local :
       Some(<<QSub(QAdd(QInt(roi.cx), QMul(CosQ(roi.rotation_deg), x_local)),
                   QMul(SinQ(roi.rotation_deg), y_local)),
              QAdd(QAdd(QInt(roi.cy), QMul(SinQ(roi.rotation_deg), x_local)),
                   QMul(CosQ(roi.rotation_deg), y_local))>>)))

\* A direct call leaves its record as the last response.
Record(r) == resp' = r /\ UNCHANGED prev

\* The record of a call of a coordinate mapping.
MappingCall(op, point, roi, value) ==
    Response(op, IsSome(value),
             IF IsSome(value) THEN ""
             ELSE "ROI width/height cannot be zero when converting coordinates",
             Some([point |-> point, roi |-> roi, value |-> value]))

ImageToUnit(point_xy, roi) ==
    /\ Record(MappingCall("image_to_unit", point_xy, roi, imageToUnit(point_xy, roi)))
    /\ UNCHANGED <<workers, segRoi, bossMask, ribMask, roiFile, bossFile, pointsFile, matchCsv,
                   matchFile, stateFile, resultFile, lastRun, clock>>

UnitToImage(point_uv, roi) ==
    /\ Record(MappingCall("unit_to_image", point_uv, roi, unitToImage(point_uv, roi)))
    /\ UNCHANGED <<workers, segRoi, bossMask, ribMask, roiFile, bossFile, pointsFile, matchCsv,
                   matchFile, stateFile, resultFile, lastRun, clock>>

RoiParams(cx, cy, w, h, rotation_deg) ==
    [cx |-> cx, cy |-> cy, w |-> w, h |-> h, rotation_deg |-> rotation_deg, scale |-> 1]

\* ROIs of every quarter turn and of the 3-4-5 angle, and two degenerate
\* ones.
MappingRois ==
    {RoiParams(100, 100, 200, 200, 0), RoiParams(100, 80, 200, 100, 90),
     RoiParams(30, 40, 60, 50, 180), RoiParams(0, 0, 7, 3, 270),
     RoiParams(100, 80, 120, 50, 53),
     RoiParams(100, 100, 0, 200, 0), RoiParams(100, 100, 200, 0, 53)}

\* Points, used both as pixel points and as unit points.
MappingPoints ==
    {<<QInt(0), QInt(0)>>, <<QInt(100), QInt(80)>>, <<QInt(40), QInt(-20)>>,
     <<QHalf, QHalf>>, <<Q(1, 3), Q(3, 4)>>, <<Q(6, 5), Q(-1, 4)>>}

(***************************************************************************)
(* utils/template_keypoints.py, the standard grid.  Keypoint coordinates   *)
(* are in units of 1e-6, the precision _dedupe_points rounds to.           *)
(***************************************************************************)
Micro == 1000000

MaxGridN == 6

\* The loop of _dedupe_points over points[i..j]: keep a point unless a kept
\* one lies within tol = 1e-6 of it (for whole micro-units:
\* |dx| + |dy| <= 1).
RECURSIVE DedupeLoop(_, _, _, _)
DedupeLoop(points, i, j, out) ==
    IF i > j THEN out
    ELSE Bind(IF \E k \in 1..Len(out) :
                    Abs(points[i][1] - out[k][1]) + Abs(points[i][2] - out[k][2]) <= 1
              THEN out ELSE Append(out, points[i]),
              LAMBDA kept : DedupeLoop(points, i + 1, j, kept))

\* _dedupe_points on points already rounded to 6 digits, from index i on,
\* eight points at a time.
RECURSIVE _dedupe_points(_, _, _)
_dedupe_points(points, i, out) ==
    IF i > Len(points) THEN out
    ELSE Bind(DedupeLoop(points, i, Min2(i + 7, Len(points)), out),
              LAMBDA kept : _dedupe_points(points, i + 8, kept))

\* A variant whose loops run over range(0, n): the last row and the last
\* column of the grid are not generated.
_grid_intersections_open(n) ==
    _dedupe_points([k \in 1..(Max2(1, n) * Max2(1, n)) |->
                       <<RoundDiv(((k - 1) \div Max2(1, n)) * Micro, Max2(1, n)),
                         RoundDiv(((k - 1) % Max2(1, n)) * Micro, Max2(1, n))>>],
                   1, << >>)

\* _grid_intersections: u = i / n outermost, v = j / n innermost.
_grid_intersections(n) ==
    _dedupe_points([k \in 1..((Max2(1, n) + 1) * (Max2(1, n) + 1)) |->
                       <<RoundDiv(((k - 1) \div (Max2(1, n) + 1)) * Micro, Max2(1, n)),
                         RoundDiv(((k - 1) % (Max2(1, n) + 1)) * Micro, Max2(1, n))>>],
                   1, << >>)

\* generate_keypoints("standard", n = n): None for the ValueError of n < 2.
generate_keypoints(n) == IF n < 2 THEN None ELSE Some(_grid_intersections(n))

GenerateKeypoints(n) ==
    /\ Record(Response("generate_keypoints", IsSome(generate_keypoints(n)),
                      IF n < 2 THEN "standard variant requires n >= 2" ELSE "",
                      Some([n |-> n, value |-> generate_keypoints(n)])))
    /\ UNCHANGED <<workers, segRoi, bossMask, ribMask, roiFile, bossFile, pointsFile, matchCsv,
                   matchFile, stateFile, resultFile, lastRun, clock>>

(***************************************************************************)
(* utils/template_scoring.py: score_template_ratios.  Template points,     *)
(* boss points and the tolerance are in units of 1/G, the score in units   *)
(* of 1/ScoreUnit, the coverage a fraction <<matched, total>>.             *)
(***************************************************************************)
\* np.sort(np.unique(values))
RECURSIVE Ascending(_)
Ascending(S) == IF S = {} THEN << >> ELSE <<MinOf(S)>> \o Ascending(S \ {MinOf(S)})

extract_template_ratios(template_uv) ==
    <<Ascending({template_uv[k][1] : k \in 1..Len(template_uv)}),
      Ascending({template_uv[k][2] : k \in 1..Len(template_uv)})>>

\* A variant that charges the unmatched penalty of 0.05 whatever the
\* coverage is.
score_template_ratios_flatpenalty(template_uv, bosses_uv, tolerance) ==
    Bind(extract_template_ratios(template_uv), LAMBDA ratios :
    Bind(SelectSeq([i \in 1..Len(bosses_uv) |->
                       match_boss_to_ratios(bosses_uv[i], ratios[1], ratios[2], tolerance)],
                   LAMBDA m : IsSome(m.x_idx) /\ IsSome(m.y_idx)),
         LAMBDA matched :
       [score |-> IF matched = << >> THEN -ScoreUnit
                  ELSE Clamp(-ScoreUnit, ScoreUnit,
                             (ScoreUnit * Len(matched)) \div Len(bosses_uv)
                             - ((ScoreUnit \div 8)
                                * SumSeq([k \in 1..Len(matched) |->
                                             matched[k].x_dist + matched[k].y_dist]))
                               \div (Len(matched) * tolerance)
                             - ScoreUnit \div 20),
        boss_coverage |-> IF bosses_uv = << >> THEN <<0, 1>>
                          ELSE <<Len(matched), Len(bosses_uv)>>,
        matched_bosses |-> Len(matched),
        n_bosses |-> Len(bosses_uv)]))

\* score = coverage - 0.25 * error_norm - 0.05 * (1 - coverage), clamped to
\* [-1, 1]; error_norm = (total_x_error + total_y_error) / (2 * matched) /
\* tolerance, infinite (so the score is -1) when no boss is matched.
score_template_ratios(template_uv, bosses_uv, tolerance) ==
    Bind(extract_template_ratios(template_uv), LAMBDA ratios :
    Bind(SelectSeq([i \in 1..Len(bosses_uv) |->
                       match_boss_to_ratios(bosses_uv[i], ratios[1], ratios[2], tolerance)],
                   LAMBDA m : IsSome(m.x_idx) /\ IsSome(m.y_idx)),
         LAMBDA matched :
       [score |-> IF matched = << >> THEN -ScoreUnit
                  ELSE Clamp(-ScoreUnit, ScoreUnit,
                             (ScoreUnit * Len(matched)) \div Len(bosses_uv)
                             - ((ScoreUnit \div 8)
                                * SumSeq([k \in 1..Len(matched) |->
                                             matched[k].x_dist + matched[k].y_dist]))
                               \div (Len(matched) * tolerance)
                             - ((ScoreUnit \div 20) * (Len(bosses_uv) - Len(matched)))
                               \div Len(bosses_uv)),
        boss_coverage |-> IF bosses_uv = << >> THEN <<0, 1>>
                          ELSE <<Len(matched), Len(bosses_uv)>>,
        matched_bosses |-> Len(matched),
        n_bosses |-> Len(bosses_uv)]))

ScoreTemplate(template_uv, bosses_uv, tolerance) ==
    /\ Record(Response("score_template", TRUE, "",
                       Some([template_uv |-> template_uv, bosses_uv |-> bosses_uv,
                             tolerance |-> tolerance,
                             value |-> score_template_ratios(template_uv, bosses_uv,
                                                             tolerance)])))
    /\ UNCHANGED <<workers, segRoi, bossMask, ribMask, roiFile, bossFile, pointsFile, matchCsv,
                   matchFile, stateFile, resultFile, lastRun, clock>>

\* The standard(n) grid in units of 1/G.
GridUv(n) ==
    [k \in 1..((n + 1) * (n + 1)) |->
        <<StandardRatios(n)[((k - 1) \div (n + 1)) + 1], StandardRatios(n)[((k - 1) % (n + 1)) + 1]>>]

\* standard(3), standard(4), and a template of four points off any grid.
ScoredTemplates ==
    {GridUv(3), GridUv(4), << <<0, 0>>, <<33, 67>>, <<50, 50>>, <<100, 90>> >>}

\* Five bosses on the standard(4) grid; three bosses 0.01 to 0.03 off it;
\* two bosses on ratio pairs of the four-point template that are not
\* points of it; no boss.
BossesOnGrid4 == << <<25, 25>>, <<50, 50>>, <<75, 25>>, <<0, 100>>, <<100, 0>> >>
BossesNearGrid4 == << <<26, 25>>, <<50, 53>>, <<73, 77>> >>
BossesOnRatios == << <<33, 50>>, <<0, 90>> >>
ScoredBosses == {BossesOnGrid4, BossesNearGrid4, BossesOnRatios, << >>}

Tolerances == {1, 2, 5}

\* Direct calls of the coordinate mappings, the grid generator and the
\* template scorer.
InitPure ==
    /\ segRoi = None
    /\ bossMask = None
    /\ ribMask = None
    /\ stateFile = None
    /\ roiFile = None
    /\ bossFile = None
    /\ pointsFile = None
    /\ matchCsv = None
    /\ matchFile = None
    /\ resultFile = None
    /\ resp = NoResponse
    /\ prev = NoResponse
    /\ lastRun = None
    /\ clock = 0
    /\ workers = NoWorkers

NextPure ==
    \/ \E point_xy \in MappingPoints, roi \in MappingRois : ImageToUnit(point_xy, roi)
    \/ \E point_uv \in MappingPoints, roi \in MappingRois : UnitToImage(point_uv, roi)
    \/ \E n \in 1..MaxGridN : GenerateKeypoints(n)
    \/ \E template_uv \in ScoredTemplates, bosses_uv \in ScoredBosses, tolerance \in Tolerances :
          ScoreTemplate(template_uv, bosses_uv, tolerance)

SpecPure == InitPure /\ [][NextPure]_vars

(***************************************************************************)
(* Claims about the coordinate mappings (roi_math.py), over SpecPure.      *)
(* The arithmetic of the model is exact, so "within 1e-6" is equality.     *)
(***************************************************************************)
MappingOps == {"image_to_unit", "unit_to_image"}

CallPoint == Get(resp.data).point
CallRoi == Get(resp.data).roi
CallValue == Get(resp.data).value

\* C24: for a valid ROI (w > 0, h > 0, any rotation) the two mappings are
\* mutual inverses: mapping the result of image_to_unit back with
\* unit_to_image gives the pixel point again, and mapping the result of
\* unit_to_image back with image_to_unit gives the unit point again.
C24_RoundTrip ==
    /\ (resp.op = "image_to_unit" /\ CallRoi.w > 0 /\ CallRoi.h > 0)
          => /\ resp.success
             /\ unitToImage(Get(CallValue), CallRoi) = Some(CallPoint)
    /\ (resp.op = "unit_to_image" /\ CallRoi.w > 0 /\ CallRoi.h > 0)
          => /\ resp.success
             /\ imageToUnit(Get(CallValue), CallRoi) = Some(CallPoint)

\* A fractional pixel point mapped through the ROI rotated by the 3-4-5
\* angle lands on a different unit point.
C24_Witness ==
    /\ resp.op = "image_to_unit"
    /\ CallRoi = RoiParams(100, 80, 120, 50, 53)
    /\ CallPoint = <<Q(6, 5), Q(-1, 4)>>
    /\ resp.success
    /\ Get(CallValue) # CallPoint
    /\ Get(CallValue)[1][2] > 1

\* C25 (as stated): for an ROI with w = 0 or h = 0 both image_to_unit and
\* unit_to_image fail with the degenerate-ROI error and return no value.
C25_DegenerateRoiFailsBothWays ==
    (resp.op \in MappingOps /\ (CallRoi.w = 0 \/ CallRoi.h = 0))
       => /\ ~resp.success
          /\ CallValue = None
          /\ resp.error = "ROI width/height cannot be zero when converting coordinates"

(***************************************************************************)
(* Claims about score_template_ratios, over SpecPure.                      *)
(***************************************************************************)
ScoreCall == Get(resp.data)

\* Every boss lies exactly on an x-ratio and on a y-ratio of the template.
OnRatioPairs(template_uv, bosses_uv) ==
    \A k \in 1..Len(bosses_uv) :
       /\ \E i \in 1..Len(template_uv) : template_uv[i][1] = bosses_uv[k][1]
       /\ \E j \in 1..Len(template_uv) : template_uv[j][2] = bosses_uv[k][2]

\* C21: when the boss set is not empty and every boss coincides exactly with
\* an (x-ratio, y-ratio) pair of the template, score_template_ratios reports
\* matched_bosses = number of bosses, coverage 1 and score 1.0.
C21_ExactBossesScoreOne ==
    (/\ resp.op = "score_template"
     /\ ScoreCall.bosses_uv # << >>
     /\ OnRatioPairs(ScoreCall.template_uv, ScoreCall.bosses_uv))
       => /\ ScoreCall.value.matched_bosses = Len(ScoreCall.bosses_uv)
          /\ ScoreCall.value.n_bosses = Len(ScoreCall.bosses_uv)
          /\ ScoreCall.value.boss_coverage = <<Len(ScoreCall.bosses_uv), Len(ScoreCall.bosses_uv)>>
          /\ ScoreCall.value.score = ScoreUnit

\* Scenario D: five bosses on the standard(4) grid, tolerance 0.01.
C21_Witness ==
    /\ resp.op = "score_template"
    /\ ScoreCall.template_uv = GridUv(4)
    /\ ScoreCall.bosses_uv = BossesOnGrid4
    /\ ScoreCall.tolerance = 1
    /\ ScoreCall.value.matched_bosses = 5
    /\ ScoreCall.value.score = ScoreUnit

\* a/b <= c/d for fractions <<a, b>>, <<c, d>> of positive denominators.
FracLeq(x, y) == x[1] * y[2] <= y[1] * x[2]

\* C22: for the template and boss set of a call made at tolerance tol1, the
\* coverage (matched bosses / total bosses) computed at any tolerance
\* tol2 >= tol1 is at least the coverage computed at tol1.
C22_CoverageMonotone ==
    resp.op = "score_template"
       => \A tol2 \in Tolerances :
             ScoreCall.tolerance <= tol2
                => FracLeq(ScoreCall.value.boss_coverage,
                           score_template_ratios(ScoreCall.template_uv, ScoreCall.bosses_uv,
                                                 tol2).boss_coverage)

\* Bosses near the standard(4) grid: one of three matched at tolerance 0.01,
\* all three at tolerance 0.05.
C22_Witness ==
    /\ resp.op = "score_template"
    /\ ScoreCall.template_uv = GridUv(4)
    /\ ScoreCall.bosses_uv = BossesNearGrid4
    /\ ScoreCall.tolerance = 1
    /\ ScoreCall.value.boss_coverage = <<1, 3>>
    /\ score_template_ratios(GridUv(4), BossesNearGrid4, 5).boss_coverage = <<3, 3>>

(***************************************************************************)
(* Claims about generate_keypoints("standard", n), over SpecPure.          *)
(***************************************************************************)
GridCall == Get(resp.data)

\* C23: for n >= 2 the standard grid is exactly the (n+1)^2 points
\* {i/n} x {j/n}, 0 <= i, j <= n, each once; it contains the four corners,
\* it contains the centre (0.5, 0.5) iff n is even, and standard(2) is the
\* 9 points {0, 0.5, 1} x {0, 0.5, 1}.
C23_StandardGrid ==
    (resp.op = "generate_keypoints" /\ GridCall.n >= 2)
       => /\ resp.success
          /\ Len(Get(GridCall.value)) = (GridCall.n + 1) * (GridCall.n + 1)
          /\ Cardinality(Range(Get(GridCall.value))) = (GridCall.n + 1) * (GridCall.n + 1)
          /\ Range(Get(GridCall.value))
                = {<<RoundDiv(i * Micro, GridCall.n), RoundDiv(j * Micro, GridCall.n)>> :
                      i \in 0..GridCall.n, j \in 0..GridCall.n}
          /\ {<<0, 0>>, <<Micro, 0>>, <<Micro, Micro>>, <<0, Micro>>}
                \subseteq Range(Get(GridCall.value))
          /\ (<<Micro \div 2, Micro \div 2>> \in Range(Get(GridCall.value)))
                <=> (GridCall.n % 2 = 0)
          /\ GridCall.n = 2
                => Range(Get(GridCall.value))
                      = {0, Micro \div 2, Micro} \X {0, Micro \div 2, Micro}

\* standard(3): sixteen points, the centre not among them.
C23_Witness ==
    /\ resp.op = "generate_keypoints"
    /\ GridCall.n = 3
    /\ resp.success
    /\ Len(Get(GridCall.value)) = 16
    /\ <<333333, 666667>> \in Range(Get(GridCall.value))
    /\ <<Micro \div 2, Micro \div 2>> \notin Range(Get(GridCall.value))

(***************************************************************************)
(* The graph of a reconstruction result, over Spec.                        *)
(***************************************************************************)
\* C27: in every reconstruction result each edge (a, b) has
\* 0 <= a < b < nodeCount and no pair occurs twice; Steiner nodes come after
\* all input nodes, every input node keeps its index, and the constraint
\* edges name input nodes only.
C27_EdgesValidSteinerAppended ==
    RunSucceeded =>
       /\ RunResult.nodeCount = Len(RunResult.nodes)
       /\ \A k \in 1..Len(RunResult.edges) :
             /\ 0 <= RunResult.edges[k].a
             /\ RunResult.edges[k].a < RunResult.edges[k].b
             /\ RunResult.edges[k].b < RunResult.nodeCount
             /\ \A j \in 1..Len(RunResult.edges) :
                   (j # k) => <<RunResult.edges[j].a, RunResult.edges[j].b>>
                                 # <<RunResult.edges[k].a, RunResult.edges[k].b>>
       /\ Len(RunNodes) <= Len(RunResult.nodes)
       /\ \A k \in 1..Len(RunResult.nodes) :
             IF k <= Len(RunNodes)
             THEN /\ RunResult.nodes[k].id = RunNodes[k].node_id
                  /\ RunResult.nodes[k].source = RunNodes[k].source
                  /\ RunResult.nodes[k].source # "steiner"
                  /\ <<RunResult.nodes[k].u, RunResult.nodes[k].v>> = RunNodes[k].uv
             ELSE RunResult.nodes[k].source = "steiner"
       /\ \A e \in ConstraintEdgesOf(RunResult) : e[2] < Len(RunNodes)

\* A run whose triangulation added a Steiner node to a constrained graph.
C27_Witness ==
    /\ RunSucceeded
    /\ Len(RunResult.nodes) = Len(RunNodes) + 1
    /\ RunResult.nodes[Len(RunResult.nodes)].source = "steiner"
    /\ ConstraintEdgesOf(RunResult) # {}
    /\ \E k \in 1..Len(RunResult.edges) : RunResult.edges[k].b = Len(RunNodes)

(***************************************************************************)
(* The files a completed prepare leaves, over SpecRoi.                     *)
(***************************************************************************)
PrepareSucceeded == resp.op = "prepare" /\ resp.success

\* C28: after every completed prepare, whichever branch it took, the ROI
\* recorded in boss_report.json is the params of roi.json, and each boss's
\* stored unit coordinates are its pixel centroid mapped through that ROI.
C28_BossReportUsesPersistedRoi ==
    PrepareSucceeded =>
       /\ IsSome(roiFile)
       /\ IsSome(bossFile)
       /\ roiFile = Some(Get(resp.data).roi)
       /\ bossFile = Some(Get(resp.data).bossReport)
       /\ Get(bossFile).roi = Get(roiFile).params
       /\ \A k \in 1..Len(Get(bossFile).bosses) :
             Some(Get(bossFile).bosses[k].centroid_uv)
                = image_to_unit(Get(bossFile).bosses[k].centroid_xy, Get(roiFile).params)

\* A prepare whose search improved on the saved ROI: roi.json carries the
\* corrected params, and so does the boss report.
C28_Witness ==
    /\ PrepareSucceeded
    /\ Get(roiFile).correction_applied = Some(TRUE)
    /\ Get(roiFile).params # Get(Get(roiFile).original_params)
    /\ Get(bossFile).roi = Get(roiFile).params
    /\ Get(bossFile).boss_count >= 2

(***************************************************************************)
(* Failing matching runs and node_points.json, over SpecMatch.             *)
(***************************************************************************)
\* C29 (as stated): a run_matching call that fails leaves node_points.json
\* exactly as it was before the call, a call with an explicit empty points
\* list included.
C29_FailedMatchKeepsPoints ==
    [][\A params \in MatchParams, points \in MatchPoints :
          (RunMatching(params, points) /\ ~resp'.success) => pointsFile' = pointsFile]_vars

(***************************************************************************)
(* Concurrent requests.  get_state and run_reconstruction hand their       *)
(* synchronous bodies to the default executor (lines 67-73), so two calls  *)
(* for one project run on two worker threads and interleave between one    *)
(* file operation and the next.  write_state and write_result open the     *)
(* file with mode "w", which empties it, and json.dump fills it afterwards *)
(* (reconstruction_io.py 214-215, 220-221); no lock is taken and no        *)
(* temporary file is renamed into place.                                   *)
(***************************************************************************)
\* What a reader finds in a file that was opened for writing and is not, or
\* not wholly, rewritten: len is the number of bytes in it.
Torn(len) == [torn |-> TRUE, len |-> len]

Broken(file) == IsSome(file) /\ "torn" \in DOMAIN Get(file)

Readable(file) == IsSome(file) /\ ~Broken(file)

\* The length of the JSON text of a payload, up to what the payloads of one
\* project have in common: a result grows with its nodes and edges, a state
\* with its lastRun entry.
JsonLen(text) ==
    IF "nodes" \in DOMAIN text THEN Len(text.nodes) + Len(text.edges)
    ELSE IF IsSome(text.lastRun) THEN 2 ELSE 1

FileLen(file) ==
    IF ~IsSome(file) THEN 0
    ELSE IF Broken(file) THEN Get(file).len ELSE JsonLen(Get(file))

\* json.dump through a handle of its own, from offset 0: the text replaces
\* the bytes under it, and bytes another writer put beyond its end stay.
Overlay(file, text) ==
    IF FileLen(file) > JsonLen(text) THEN Some(Torn(FileLen(file))) ELSE Some(text)

JsonError == "Expecting value: line 1 column 1 (char 0)"

\* A call that raises on its worker: the router answers success = false and
\* the worker is free again.
Raise(w, op, error) ==
    /\ Reply(Response(op, FALSE, error, None))
    /\ workers' = [workers EXCEPT ![w] = Idle]
    /\ UNCHANGED <<stateFile, resultFile, lastRun, clock>>

\* _run_reconstruction_sync, lines 118-320: resolve_params reads state.json,
\* then the run reads its inputs and builds the payload.
BeginRun(w) ==
    /\ workers[w] = Idle
    /\ clock < MaxClock
    /\ UNCHANGED <<segRoi, bossMask, ribMask, roiFile, bossFile, pointsFile, matchCsv,
                   matchFile>>
    /\ IF Broken(stateFile) THEN Raise(w, "run", JsonError)
       ELSE \E params \in {resolve_params(stateFile, DEFAULT_RECONSTRUCT_PARAMS)},
               roi \in {load_roi_params(roiFile)} :
          IF ~IsSome(roi) THEN Raise(w, "run", "ROI not found. Run Step 4.1 first.")
          ELSE IF ~IsSome(bossFile)
          THEN Raise(w, "run", "Boss report not found. Run Step 4.1 first.")
          ELSE \E boss_rows \in {load_boss_rows(bossFile, matchCsv)} :
               IF boss_rows = << >>
               THEN Raise(w, "run", "No bosses available for reconstruction.")
               ELSE \E nodes \in {collect_nodes(Get(roi), boss_rows,
                                                params.includeCornerAnchors,
                                                params.includeHalfAnchors)} :
                    \E stage \in {ConstraintStage(params, nodes, ribMask)} :
                    \E tri \in (IF Len(nodes) < 2
                               THEN {[ok |-> TRUE, steiner |-> << >>, tris |-> {}]}
                               ELSE TriangulatorOutcomes(nodes, stage.constraint_edges)) :
                       IF ~tri.ok THEN Raise(w, "run", "triangulate failed")
                       ELSE /\ workers' =
                                 [workers EXCEPT ![w] =
                                     [op |-> "run", pc |-> "write", params |-> Some(params),
                                      result |-> Some(RunPayload(params, Get(roi), boss_rows,
                                                                 ribMask, nodes, stage, tri,
                                                                 clock)),
                                      writes |-> <<"result", "state">>, opened |-> None]]
                            /\ clock' = clock + 1
                            /\ UNCHANGED <<stateFile, resultFile, lastRun, resp, prev>>

\* _get_state_sync, line 77: resolve_params reads state.json.
BeginGetState(w) ==
    /\ workers[w] = Idle
    /\ UNCHANGED <<segRoi, bossMask, ribMask, roiFile, bossFile, pointsFile, matchCsv,
                   matchFile>>
    /\ IF Broken(stateFile) THEN Raise(w, "get_state", JsonError)
       ELSE /\ workers' =
                 [workers EXCEPT ![w] =
                     [op |-> "get_state", pc |-> "read_result",
                      params |-> Some(resolve_params(stateFile, DEFAULT_RECONSTRUCT_PARAMS)),
                      result |-> None, writes |-> << >>, opened |-> None]]
            /\ UNCHANGED <<stateFile, resultFile, lastRun, clock, resp, prev>>

\* _get_state_sync, lines 95-104: the summary of result.json, if it exists.
ReadResult(w) ==
    /\ workers[w].pc = "read_result"
    /\ UNCHANGED <<segRoi, bossMask, ribMask, roiFile, bossFile, pointsFile, matchCsv,
                   matchFile>>
    /\ IF Broken(resultFile) THEN Raise(w, "get_state", JsonError)
       ELSE /\ workers' = [workers EXCEPT ![w].pc = "write",
                                          ![w].result = LastRunSummary(resultFile),
                                          ![w].writes = <<"state">>]
            /\ UNCHANGED <<stateFile, resultFile, lastRun, clock, resp, prev>>

\* write_result and write_state up to the open("w"): the text is built, the
\* file is emptied.
Open(w) ==
    /\ workers[w].pc = "write"
    /\ workers[w].opened = None
    /\ IF Head(workers[w].writes) = "result"
       THEN /\ resultFile' = Some(Torn(0))
            /\ workers' = [workers EXCEPT ![w].opened = workers[w].result]
            /\ UNCHANGED stateFile
       ELSE /\ stateFile' = Some(Torn(0))
            /\ workers' = [workers EXCEPT ![w].opened =
                              write_state(Get(workers[w].params), workers[w].result, clock)]
            /\ UNCHANGED resultFile
    /\ UNCHANGED <<segRoi, bossMask, ribMask, roiFile, bossFile, pointsFile, matchCsv,
                   matchFile, lastRun, clock, resp, prev>>

\* What get_state returns (lines 107-115): the summary it read, and
\* resultPath by whether result.json exists now.
GetStateReturn(params, summary) ==
    [params |-> params,
     defaults |-> DEFAULT_RECONSTRUCT_PARAMS,
     lastRunSummary |-> summary,
     previewBosses |-> PreviewBosses(roiFile, bossFile, matchCsv),
     statePath |-> "bay_plan_reconstruction/state.json",
     resultPath |-> IF IsSome(resultFile)
                    THEN Some("bay_plan_reconstruction/result.json") ELSE None]

\* json.dump and the close of the file; after its last file the call
\* returns.
Dump(w) ==
    /\ workers[w].pc = "write"
    /\ IsSome(workers[w].opened)
    /\ IF Head(workers[w].writes) = "result"
       THEN /\ resultFile' = Overlay(resultFile, Get(workers[w].opened))
            /\ UNCHANGED stateFile
       ELSE /\ stateFile' = Overlay(stateFile, Get(workers[w].opened))
            /\ UNCHANGED resultFile
    /\ IF Tail(workers[w].writes) # << >>
       THEN /\ workers' = [workers EXCEPT ![w].writes = Tail(workers[w].writes),
                                          ![w].opened = None]
            /\ UNCHANGED <<lastRun, resp, prev>>
       ELSE /\ workers' = [workers EXCEPT ![w] = Idle]
            /\ IF workers[w].op = "run"
               THEN /\ Reply(Response("run", TRUE, "", workers[w].result))
                    /\ lastRun' = workers[w].result
               ELSE /\ Reply(Response("get_state", TRUE, "",
                                      Some(GetStateReturn(Get(workers[w].params),
                                                          workers[w].result))))
                    /\ UNCHANGED lastRun
    /\ UNCHANGED <<segRoi, bossMask, ribMask, roiFile, bossFile, pointsFile, matchCsv,
                   matchFile, clock>>

\* A project as a prepare without ROI auto-correction leaves it.
InitRace ==
    /\ segRoi = SquareRoi
    /\ bossMask = BossPair
    /\ ribMask = None
    /\ roiFile = Some([prepare_roi_for_geometry2d(Get(SquareRoi)) EXCEPT
                          !.original_params = Some(_build_roi_params(Get(SquareRoi))),
                          !.correction_requested = Some(FALSE),
                          !.correction_applied = Some(FALSE)])
    /\ bossFile = prepare_bosses_for_geometry2d(BossPair, _build_roi_params(Get(SquareRoi)),
                                                None, 10).payload
    /\ pointsFile = None
    /\ matchCsv = None
    /\ matchFile = None
    /\ stateFile = None
    /\ resultFile = None
    /\ resp = NoResponse
    /\ prev = NoResponse
    /\ lastRun = None
    /\ clock = 0
    /\ workers = NoWorkers

\* Concurrent run_reconstruction calls.
NextRuns == \E w \in 1..MaxWorkers : BeginRun(w) \/ Open(w) \/ Dump(w)

SpecRuns == InitRace /\ [][NextRuns]_vars

\* Concurrent run_reconstruction and get_state calls.
NextRace ==
    \E w \in 1..MaxWorkers :
       BeginRun(w) \/ BeginGetState(w) \/ ReadResult(w) \/ Open(w) \/ Dump(w)

SpecRace == InitRace /\ [][NextRace]_vars

AllIdle == \A w \in 1..MaxWorkers : workers[w] = Idle

\* C26 (as stated): two run_reconstruction calls of one project running at
\* the same time both complete, neither failing because of the other, and
\* once both have finished result.json holds the complete payload of one of
\* them, never a mixture.
C26_ConcurrentRunsComplete ==
    /\ resp.op = "run" => resp.success
    /\ (AllIdle /\ IsSome(resultFile)) => Readable(resultFile)

\* C30 (as stated): under any interleaving of get_state and
\* run_reconstruction calls, once all calls have finished the lastRun of
\* state.json describes the run whose payload is in result.json.
C30_StateSummaryNotStale ==
    (AllIdle /\ Readable(resultFile) /\ Readable(stateFile))
       => Get(stateFile).lastRun = Get(write_state(Get(stateFile).params, resultFile, 0)).lastRun

=============================================================================
